---- MODULE Spec2Model ----
(***************************************************************************)
(* A state-machine model of the Claude_Chess rules engine (chess.c), its   *)
(* FEN serializer (stockfish.c) and the game loop with its FEN log and     *)
(* undo commands (main.c).                                                 *)
(***************************************************************************)
EXTENDS Integers, Sequences, FiniteSets, TLC

(***************************************************************************)
(* chess.h: board size, piece kinds, colors.                               *)
(***************************************************************************)
BOARD_SIZE == 8

EMPTY == 0

PAWN == 1

ROOK == 2

KNIGHT == 3

BISHOP == 4

QUEEN == 5

KING == 6

WHITE == 0

BLACK == 1

\* Bounds of the model (not program constants).
\* MaxLog caps the number of lines the FEN log may grow to.
MaxLog == 5

\* MaxUndo is the largest undo count the user may type.
MaxUndo == 3

Rows == 0..(BOARD_SIZE - 1)

Squares == {[row |-> r, col |-> c] : r \in Rows, c \in Rows}

Pos(r, c) == [row |-> r, col |-> c]

NoPos == [row |-> -1, col |-> -1]

Piece(t, c) == [type |-> t, color |-> c]

NoPiece == [type |-> EMPTY, color |-> WHITE]

Abs(x) == IF x < 0 THEN -x ELSE x

Opponent(c) == IF c = WHITE THEN BLACK ELSE WHITE

(***************************************************************************)
(* Board accessors (chess.c).                                              *)
(***************************************************************************)
is_valid_position(row, col) ==
    row >= 0 /\ row < BOARD_SIZE /\ col >= 0 /\ col < BOARD_SIZE

is_piece_at(game, row, col) == game.board[row][col].type # EMPTY

get_piece_at(game, row, col) == game.board[row][col]

set_piece_at(game, row, col, piece) ==
    [game EXCEPT !.board[row][col] = piece]

clear_position(game, row, col) ==
    [game EXCEPT !.board[row][col] = NoPiece]

(***************************************************************************)
(* Pseudo-legal move generation, one operator per piece kind.  The C code  *)
(* fills an array; only membership in it is ever used, so the result is    *)
(* modelled as the set of its elements.                                    *)
(***************************************************************************)
get_pawn_moves(game, from) ==
    LET piece == get_piece_at(game, from.row, from.col)
        direction == IF piece.color = WHITE THEN -1 ELSE 1
        start_row == IF piece.color = WHITE THEN 6 ELSE 1
        r1 == from.row + direction
        r2 == from.row + 2 * direction
        forward ==
            IF is_valid_position(r1, from.col) /\ ~is_piece_at(game, r1, from.col)
            THEN {Pos(r1, from.col)} \cup
                 (IF from.row = start_row /\ is_valid_position(r2, from.col)
                     /\ ~is_piece_at(game, r2, from.col)
                  THEN {Pos(r2, from.col)} ELSE {})
            ELSE {}
        captures ==
            {Pos(r1, c) : c \in {nc \in {from.col - 1, from.col + 1} :
                is_valid_position(r1, nc) /\ is_piece_at(game, r1, nc)
                /\ get_piece_at(game, r1, nc).color # piece.color}}
        en_passant_rank == IF piece.color = WHITE THEN 3 ELSE 4
        en_passant ==
            IF game.en_passant_available /\ from.row = en_passant_rank
               /\ Abs(from.col - game.en_passant_target.col) = 1
               /\ game.en_passant_target.row = from.row + direction
            THEN {game.en_passant_target} ELSE {}
    IN forward \cup captures \cup en_passant

\* One ray of a sliding piece, walked outwards from step i as the C loop
\* does: an empty square is a destination and the walk goes on; an occupied
\* one ends it, and is a destination when the piece on it is hostile.
RECURSIVE SlideRay(_, _, _, _, _)
SlideRay(game, from, dr, dc, i) ==
    LET new_row == from.row + dr * i
        new_col == from.col + dc * i
    IN IF i >= BOARD_SIZE \/ ~is_valid_position(new_row, new_col) THEN {}
       ELSE IF is_piece_at(game, new_row, new_col)
       THEN (IF get_piece_at(game, new_row, new_col).color
                  # get_piece_at(game, from.row, from.col).color
             THEN {Pos(new_row, new_col)} ELSE {})
       ELSE {Pos(new_row, new_col)} \cup SlideRay(game, from, dr, dc, i + 1)

RookDirections == {<<-1, 0>>, <<1, 0>>, <<0, -1>>, <<0, 1>>}

BishopDirections == {<<-1, -1>>, <<-1, 1>>, <<1, -1>>, <<1, 1>>}

KnightOffsets == {<<-2, -1>>, <<-2, 1>>, <<-1, -2>>, <<-1, 2>>,
                  <<1, -2>>, <<1, 2>>, <<2, -1>>, <<2, 1>>}

KingDirections == RookDirections \cup BishopDirections

get_rook_moves(game, from) ==
    UNION {SlideRay(game, from, d[1], d[2], 1) : d \in RookDirections}

get_bishop_moves(game, from) ==
    UNION {SlideRay(game, from, d[1], d[2], 1) : d \in BishopDirections}

\* Squares at the given offsets that are on the board and not held by a
\* piece of the mover's color (shared by knight and king).
StepMoves(game, from, offsets) ==
    LET piece == get_piece_at(game, from.row, from.col)
    IN {Pos(from.row + d[1], from.col + d[2]) : d \in {o \in offsets :
            /\ is_valid_position(from.row + o[1], from.col + o[2])
            /\ (~is_piece_at(game, from.row + o[1], from.col + o[2])
                \/ get_piece_at(game, from.row + o[1], from.col + o[2]).color
                     # piece.color)}}

get_knight_moves(game, from) == StepMoves(game, from, KnightOffsets)

get_queen_moves(game, from) ==
    get_rook_moves(game, from) \cup get_bishop_moves(game, from)

get_king_moves_no_castling(game, from) == StepMoves(game, from, KingDirections)

\* The attack scan moves every piece of by_color except the king through
\* get_possible_moves with current_player set to by_color; the king goes
\* through get_king_moves_no_castling.
AttackMoves(game, from) ==
    LET piece == get_piece_at(game, from.row, from.col)
    IN CASE piece.type = PAWN   -> get_pawn_moves(game, from)
         [] piece.type = ROOK   -> get_rook_moves(game, from)
         [] piece.type = KNIGHT -> get_knight_moves(game, from)
         [] piece.type = BISHOP -> get_bishop_moves(game, from)
         [] piece.type = QUEEN  -> get_queen_moves(game, from)
         [] piece.type = KING   -> get_king_moves_no_castling(game, from)
         [] OTHER               -> {}

is_square_attacked(game, pos, by_color) ==
    \E row \in Rows : \E col \in Rows :
        /\ is_piece_at(game, row, col)
        /\ get_piece_at(game, row, col).color = by_color
        /\ pos \in AttackMoves(game, Pos(row, col))

is_in_check(game, color) ==
    LET king_pos == IF color = WHITE THEN game.white_king_pos
                    ELSE game.black_king_pos
    IN is_square_attacked(game, king_pos, Opponent(color))

\* The castling destinations get_king_moves appends for one wing:
\* krow is the home row, rook_moved the wing's rook flag, between the
\* squares that must be empty, safe the squares that must be unattacked.
CastleOffered(game, from, king_moved, rook_moved, krow, between, safe, enemy) ==
    /\ ~king_moved /\ ~rook_moved
    /\ from.row = krow /\ from.col = 4
    /\ \A c \in between : ~is_piece_at(game, krow, c)
    /\ \A c \in safe : ~is_square_attacked(game, Pos(krow, c), enemy)

get_king_moves(game, from) ==
    LET piece == get_piece_at(game, from.row, from.col)
        castles ==
            IF game.in_check[piece.color] THEN {}
            ELSE IF piece.color = WHITE
            THEN (IF CastleOffered(game, from, game.white_king_moved,
                        game.white_rook_h_moved, 7, {5, 6}, {5, 6}, BLACK)
                  THEN {Pos(7, 6)} ELSE {})
                 \cup
                 (IF CastleOffered(game, from, game.white_king_moved,
                        game.white_rook_a_moved, 7, {1, 2, 3}, {2, 3}, BLACK)
                  THEN {Pos(7, 2)} ELSE {})
            ELSE (IF CastleOffered(game, from, game.black_king_moved,
                        game.black_rook_h_moved, 0, {5, 6}, {5, 6}, WHITE)
                  THEN {Pos(0, 6)} ELSE {})
                 \cup
                 (IF CastleOffered(game, from, game.black_king_moved,
                        game.black_rook_a_moved, 0, {1, 2, 3}, {2, 3}, WHITE)
                  THEN {Pos(0, 2)} ELSE {})
    IN get_king_moves_no_castling(game, from) \cup castles

get_possible_moves(game, from) ==
    IF ~is_valid_position(from.row, from.col)
       \/ ~is_piece_at(game, from.row, from.col)
    THEN {}
    ELSE LET piece == get_piece_at(game, from.row, from.col)
         IN IF piece.color # game.current_player THEN {}
            ELSE CASE piece.type = PAWN   -> get_pawn_moves(game, from)
                   [] piece.type = ROOK   -> get_rook_moves(game, from)
                   [] piece.type = KNIGHT -> get_knight_moves(game, from)
                   [] piece.type = BISHOP -> get_bishop_moves(game, from)
                   [] piece.type = QUEEN  -> get_queen_moves(game, from)
                   [] piece.type = KING   -> get_king_moves(game, from)
                   [] OTHER               -> {}

(***************************************************************************)
(* Legality filter.  The C function mutates the game and reverts it; the   *)
(* operator returns both the answer and the game as the revert leaves it.  *)
(***************************************************************************)
would_be_in_check_after_move(game, from, to) ==
    LET moving_piece == get_piece_at(game, from.row, from.col)
        captured_piece == get_piece_at(game, to.row, to.col)
        g1 == clear_position(set_piece_at(game, to.row, to.col, moving_piece),
                             from.row, from.col)
        g2 == IF moving_piece.type = KING
              THEN (IF moving_piece.color = WHITE
                    THEN [g1 EXCEPT !.white_king_pos = to]
                    ELSE [g1 EXCEPT !.black_king_pos = to])
              ELSE g1
        in_check == is_in_check(g2, moving_piece.color)
        g3 == set_piece_at(set_piece_at(g2, from.row, from.col, moving_piece),
                           to.row, to.col, captured_piece)
        g4 == IF moving_piece.type = KING
              THEN (IF moving_piece.color = WHITE
                    THEN [g3 EXCEPT !.white_king_pos = from]
                    ELSE [g3 EXCEPT !.black_king_pos = from])
              ELSE g3
    IN [ret |-> in_check, game |-> g4]

is_valid_move(game, from, to) ==
    LET Answer(w) == [ret |-> ~w.ret, game |-> w.game]
    IN IF to \in get_possible_moves(game, from)
       THEN Answer(would_be_in_check_after_move(game, from, to))
       ELSE [ret |-> FALSE, game |-> game]

\* is_promotion_move as it would be if no move were a promotion.
NeverPromotion(game, from, to) == FALSE

is_promotion_move(game, from, to) ==
    LET moving_piece == get_piece_at(game, from.row, from.col)
    IN IF moving_piece.type # PAWN THEN FALSE
       ELSE to.row = (IF moving_piece.color = WHITE THEN 0 ELSE 7)

\* is_valid_promotion_piece as it would be if it let every kind of piece
\* through.
is_any_piece(piece_type) == piece_type # EMPTY

is_valid_promotion_piece(piece_type) == piece_type \in {QUEEN, ROOK, BISHOP, KNIGHT}

\* The capturing side's list grows by the captured piece (chess.c 560-566).
RecordCapture(game, captured_piece) ==
    IF captured_piece.type = EMPTY THEN game
    ELSE IF captured_piece.color = WHITE
    THEN [game EXCEPT !.black_captured = Append(@, captured_piece)]
    ELSE [game EXCEPT !.white_captured = Append(@, captured_piece)]

\* Both cached check flags are recomputed from the position.
UpdateCheckStatus(game) ==
    [game EXCEPT !.in_check = [c \in {WHITE, BLACK} |-> is_in_check(game, c)]]

make_promotion_move(game, from, to, promotion_type) ==
    IF ~is_promotion_move(game, from, to) THEN [ret |-> FALSE, game |-> game]
    ELSE IF ~is_valid_promotion_piece(promotion_type)
    THEN [ret |-> FALSE, game |-> game]
    ELSE LET Promote(g0) ==
                 LET moving_piece == get_piece_at(g0, from.row, from.col)
                     captured_piece == get_piece_at(g0, to.row, to.col)
                     g1 == RecordCapture(g0, captured_piece)
                     g2 == clear_position(
                              set_piece_at(g1, to.row, to.col,
                                  Piece(promotion_type, moving_piece.color)),
                              from.row, from.col)
                     g3 == [g2 EXCEPT
                              !.halfmove_clock = 0,
                              !.fullmove_number =
                                  IF g0.current_player = BLACK THEN @ + 1 ELSE @,
                              !.en_passant_available = FALSE,
                              !.en_passant_target = NoPos,
                              !.current_player = Opponent(g0.current_player)]
                 IN [ret |-> TRUE, game |-> UpdateCheckStatus(g3)]
             Checked(v) ==
                 IF ~v.ret THEN [ret |-> FALSE, game |-> v.game]
                 ELSE Promote(v.game)
         IN Checked(is_valid_move(game, from, to))

\* The rook relocation and rook flag of a castle (chess.c 571-604).
CastleRook(game, moving_piece, to) ==
    LET krow == IF moving_piece.color = WHITE THEN 7 ELSE 0
        Relocate(g, fromc, toc) ==
            clear_position(set_piece_at(g, krow, toc,
                                        get_piece_at(g, krow, fromc)),
                           krow, fromc)
    IN IF to.col = 6
       THEN LET g1 == Relocate(game, 7, 5)
            IN IF moving_piece.color = WHITE
               THEN [g1 EXCEPT !.white_rook_h_moved = TRUE]
               ELSE [g1 EXCEPT !.black_rook_h_moved = TRUE]
       ELSE IF to.col = 2
       THEN LET g1 == Relocate(game, 0, 3)
            IN IF moving_piece.color = WHITE
               THEN [g1 EXCEPT !.white_rook_a_moved = TRUE]
               ELSE [g1 EXCEPT !.black_rook_a_moved = TRUE]
       ELSE game

\* The flag updates for a rook leaving its home corner as they would be if
\* each move of a rook wrote both flags of its color anew.
RookFlagsWrittenAnew(game, moving_piece, from) ==
    IF moving_piece.type # ROOK THEN game
    ELSE IF moving_piece.color = WHITE
    THEN [game EXCEPT
            !.white_rook_a_moved = (from.row = 7 /\ from.col = 0),
            !.white_rook_h_moved = (from.row = 7 /\ from.col = 7)]
    ELSE [game EXCEPT
            !.black_rook_a_moved = (from.row = 0 /\ from.col = 0),
            !.black_rook_h_moved = (from.row = 0 /\ from.col = 7)]

\* The flag updates for a rook leaving its home corner (chess.c 615-623).
RookFlags(game, moving_piece, from) ==
    IF moving_piece.type # ROOK THEN game
    ELSE IF moving_piece.color = WHITE
    THEN [game EXCEPT
            !.white_rook_a_moved = @ \/ (from.row = 7 /\ from.col = 0),
            !.white_rook_h_moved = @ \/ (from.row = 7 /\ from.col = 7)]
    ELSE [game EXCEPT
            !.black_rook_a_moved = @ \/ (from.row = 0 /\ from.col = 0),
            !.black_rook_h_moved = @ \/ (from.row = 0 /\ from.col = 7)]

\* The halfmove clock after a move (chess.c 625-635) as it would be if only
\* a pawn move reset it.
HalfmoveClockResetByPawnOnly(halfmove_clock, was_pawn_move, was_capture) ==
    IF was_pawn_move THEN 0 ELSE halfmove_clock + 1

\* The halfmove clock after a move (chess.c 625-635).
HalfmoveClockAfter(halfmove_clock, was_pawn_move, was_capture) ==
    IF was_pawn_move \/ was_capture THEN 0 ELSE halfmove_clock + 1

\* The en-passant state after a move (chess.c 642-653) as it would be if
\* every pawn move left a target behind the pawn.
EnPassantAfterAnyPawnMove(moving_piece, from, to) ==
    IF moving_piece.type = PAWN
    THEN [available |-> TRUE,
          target |-> Pos((from.row + to.row) \div 2, to.col)]
    ELSE [available |-> FALSE, target |-> NoPos]

\* The en-passant state after a move (chess.c 642-653): cleared, then set
\* behind a pawn that has advanced two rows.
EnPassantAfter(moving_piece, from, to) ==
    IF moving_piece.type = PAWN /\ Abs(to.row - from.row) = 2
    THEN [available |-> TRUE,
          target |-> Pos((from.row + to.row) \div 2, to.col)]
    ELSE [available |-> FALSE, target |-> NoPos]

\* The row of the pawn an en-passant capture removes (chess.c 555) as it
\* would be if the pawn were taken from the destination square.
EnPassantCapturedOnTarget(moving_piece, to) == to.row

\* The row of the pawn an en-passant capture removes (chess.c 555).
EnPassantCapturedRow(moving_piece, to) ==
    IF moving_piece.color = WHITE THEN to.row + 1 ELSE to.row - 1

\* promotion_choice is what get_promotion_choice reads from the keyboard
\* when the move is a promotion.
make_move(game, from, to, promotion_choice) ==
    LET Move(g0) ==
       LET moving_piece == get_piece_at(g0, from.row, from.col)
           at_dest == get_piece_at(g0, to.row, to.col)
           is_en_passant_capture ==
               /\ moving_piece.type = PAWN /\ g0.en_passant_available
               /\ to.row = g0.en_passant_target.row
               /\ to.col = g0.en_passant_target.col
               /\ at_dest.type = EMPTY
           captured_pawn_row == EnPassantCapturedRow(moving_piece, to)
           captured_piece ==
               IF is_en_passant_capture
               THEN get_piece_at(g0, captured_pawn_row, to.col)
               ELSE at_dest
           g1 == IF is_en_passant_capture
                 THEN clear_position(g0, captured_pawn_row, to.col) ELSE g0
           g2 == RecordCapture(g1, captured_piece)
           g3 == clear_position(set_piece_at(g2, to.row, to.col, moving_piece),
                                from.row, from.col)
           g4 == IF moving_piece.type = KING
                 THEN LET gc == IF Abs(to.col - from.col) = 2
                                THEN CastleRook(g3, moving_piece, to) ELSE g3
                      IN IF moving_piece.color = WHITE
                         THEN [gc EXCEPT !.white_king_pos = to,
                                         !.white_king_moved = TRUE]
                         ELSE [gc EXCEPT !.black_king_pos = to,
                                         !.black_king_moved = TRUE]
                 ELSE g3
           g5 == RookFlags(g4, moving_piece, from)
           was_capture == captured_piece.type # EMPTY \/ is_en_passant_capture
           was_pawn_move == moving_piece.type = PAWN
           en_passant == EnPassantAfter(moving_piece, from, to)
           g6 == [g5 EXCEPT
                    !.halfmove_clock =
                        HalfmoveClockAfter(@, was_pawn_move, was_capture),
                    !.fullmove_number =
                        IF g0.current_player = BLACK THEN @ + 1 ELSE @,
                    !.en_passant_available = en_passant.available,
                    !.en_passant_target = en_passant.target,
                    !.current_player = Opponent(g0.current_player)]
       IN [ret |-> TRUE, game |-> UpdateCheckStatus(g6)]
        Checked(v) ==
            IF ~v.ret THEN [ret |-> FALSE, game |-> v.game]
            ELSE IF is_promotion_move(v.game, from, to)
            THEN make_promotion_move(v.game, from, to, promotion_choice)
            ELSE Move(v.game)
    IN Checked(is_valid_move(game, from, to))

\* move carries from, to, is_promotion and promotion_piece (chess.h Move).
execute_move(game, move, promotion_choice) ==
    IF move.is_promotion /\ move.promotion_piece # EMPTY
    THEN make_promotion_move(game, move.from, move.to, move.promotion_piece)
    ELSE make_move(game, move.from, move.to, promotion_choice)

\* has_legal_moves visits the squares row by row and returns at the first
\* move the legality filter lets through.  The filter leaves the king
\* square of the color on the square of the king it has just tried, so the
\* operators return the answer and the game the scan leaves behind.
ScanOrder(sq) == sq.row * BOARD_SIZE + sq.col

KingPosOf(g, color) ==
    IF color = WHITE THEN g.white_king_pos ELSE g.black_king_pos

\* The inner loop of has_legal_moves for the piece on sq: whether a move
\* of the piece passes the filter, and the game the filter leaves (the
\* same after every move of the piece).
TryPiece(g, sq) ==
    LET Tried(results) ==
            IF results = {} THEN [ret |-> FALSE, game |-> g]
            ELSE [ret |-> \E r \in results : ~r.ret,
                  game |-> (CHOOSE r \in results : TRUE).game]
    IN Tried({would_be_in_check_after_move(g, sq, m) :
                 m \in get_possible_moves(g, sq)})

\* The first square, row by row from the square numbered start on, that
\* holds a piece of the color.
NextOf(g, color, start) ==
    CHOOSE sq \in Squares :
        /\ ScanOrder(sq) >= start
        /\ get_piece_at(g, sq.row, sq.col).type # EMPTY
        /\ get_piece_at(g, sq.row, sq.col).color = color
        /\ \A before \in Squares :
              (ScanOrder(before) >= start /\ ScanOrder(before) < ScanOrder(sq))
                  => \/ get_piece_at(g, before.row, before.col).type = EMPTY
                     \/ get_piece_at(g, before.row, before.col).color # color

\* The two loops of has_legal_moves from the square numbered start on, row
\* by row: the next piece of the color is tried, and the scan goes on
\* behind it with the game the filter has left unless one of its moves has
\* passed.
RECURSIVE LegalMoveScan(_, _, _)
LegalMoveScan(g, color, start) ==
    LET Go(t, sq) ==
            IF t.ret THEN t
            ELSE LegalMoveScan(t.game, color, ScanOrder(sq) + 1)
    IN IF \A sq \in Squares :
              \/ ScanOrder(sq) < start
              \/ get_piece_at(g, sq.row, sq.col).type = EMPTY
              \/ get_piece_at(g, sq.row, sq.col).color # color
       THEN [ret |-> FALSE, game |-> g]
       ELSE Go(TryPiece(g, NextOf(g, color, start)), NextOf(g, color, start))

has_legal_moves(game, color) ==
    LET Restored(r) ==
            [ret |-> r.ret,
             game |-> [r.game EXCEPT !.current_player = game.current_player]]
    IN Restored(LegalMoveScan([game EXCEPT !.current_player = color], color, 0))

is_checkmate(game, color) ==
    LET Answer(h) == [ret |-> ~h.ret, game |-> h.game]
    IN IF is_in_check(game, color)
       THEN Answer(has_legal_moves(game, color))
       ELSE [ret |-> FALSE, game |-> game]

\* The stalemate test without its look at the check.
StalemateIgnoringCheck(game, color) ==
    LET Answer(h) == [ret |-> ~h.ret, game |-> h.game]
    IN Answer(has_legal_moves(game, color))

is_stalemate(game, color) ==
    LET Answer(h) == [ret |-> ~h.ret, game |-> h.game]
    IN IF ~is_in_check(game, color)
       THEN Answer(has_legal_moves(game, color))
       ELSE [ret |-> FALSE, game |-> game]

\* The draw test as it would be if it asked for more than a hundred halfmoves.
DrawAfterHundred(game) == game.halfmove_clock > 100

is_fifty_move_rule_draw(game) == game.halfmove_clock >= 100

(***************************************************************************)
(* init_board: the standard starting position.                             *)
(***************************************************************************)
BackRank == <<ROOK, KNIGHT, BISHOP, QUEEN, KING, BISHOP, KNIGHT, ROOK>>

init_board ==
    [board |-> [r \in Rows |-> [c \in Rows |->
                  CASE r = 0 -> Piece(BackRank[c + 1], BLACK)
                    [] r = 1 -> Piece(PAWN, BLACK)
                    [] r = 6 -> Piece(PAWN, WHITE)
                    [] r = 7 -> Piece(BackRank[c + 1], WHITE)
                    [] OTHER -> NoPiece]],
     current_player |-> WHITE,
     white_captured |-> <<>>,
     black_captured |-> <<>>,
     white_king_moved |-> FALSE,
     black_king_moved |-> FALSE,
     white_rook_a_moved |-> FALSE,
     white_rook_h_moved |-> FALSE,
     black_rook_a_moved |-> FALSE,
     black_rook_h_moved |-> FALSE,
     white_king_pos |-> Pos(7, 4),
     black_king_pos |-> Pos(0, 4),
     in_check |-> [c \in {WHITE, BLACK} |-> FALSE],
     halfmove_clock |-> 0,
     fullmove_number |-> 1,
     en_passant_available |-> FALSE,
     en_passant_target |-> NoPos]

(***************************************************************************)
(* Text.  A C string is modelled as the sequence of its characters; NUL    *)
(* is what a read at or past the terminator yields.                        *)
(***************************************************************************)
NUL == ""

At(str, i) == IF i >= 1 /\ i <= Len(str) THEN str[i] ELSE NUL

DigitChars == <<"0", "1", "2", "3", "4", "5", "6", "7", "8", "9">>

LowerChars == <<"a", "b", "c", "d", "e", "f", "g", "h", "i", "j", "k", "l", "m",
                "n", "o", "p", "q", "r", "s", "t", "u", "v", "w", "x", "y", "z">>

UpperChars == <<"A", "B", "C", "D", "E", "F", "G", "H", "I", "J", "K", "L", "M",
                "N", "O", "P", "Q", "R", "S", "T", "U", "V", "W", "X", "Y", "Z">>

Range(seq) == {seq[i] : i \in 1..Len(seq)}

\* The ASCII codes of the characters the model's texts are made of.
AsciiTable ==
    [c \in Range(DigitChars) |-> 47 + CHOOSE i \in 1..10 : DigitChars[i] = c]
    @@ [c \in Range(LowerChars) |-> 96 + CHOOSE i \in 1..26 : LowerChars[i] = c]
    @@ [c \in Range(UpperChars) |-> 64 + CHOOSE i \in 1..26 : UpperChars[i] = c]
    @@ (" " :> 32) @@ ("(" :> 40) @@ (")" :> 41) @@ ("-" :> 45) @@ ("/" :> 47)
    @@ ("_" :> 95) @@ (NUL :> 0)

\* The code of a character, for the arithmetic the C code does on it.
Ord(c) == AsciiTable[c]

isdigit(c) == Ord(c) >= 48 /\ Ord(c) <= 57

isupper(c) == Ord(c) >= 65 /\ Ord(c) <= 90

tolower(c) == IF isupper(c) THEN LowerChars[Ord(c) - 64] ELSE c

\* sprintf("%d") of a non-negative int.
RECURSIVE IntToStr(_)
IntToStr(n) ==
    IF n < 10 THEN <<DigitChars[n + 1]>>
    ELSE IntToStr(n \div 10) \o <<DigitChars[(n % 10) + 1]>>

\* atoi on a string that starts with a digit at ptr: the value of the run
\* of digits, accumulated left to right.
RECURSIVE AtoiFrom(_, _, _)
AtoiFrom(str, ptr, acc) ==
    IF isdigit(At(str, ptr))
    THEN AtoiFrom(str, ptr + 1, acc * 10 + (Ord(At(str, ptr)) - 48))
    ELSE acc

atoi(str, ptr) == AtoiFrom(str, ptr, 0)

\* The loops "while (*ptr && *ptr != ' ') ptr++": the first index at or
\* after ptr that holds a space or the terminator.
RECURSIVE SkipToSpace(_, _)
SkipToSpace(str, ptr) ==
    IF At(str, ptr) = NUL \/ At(str, ptr) = " " THEN ptr
    ELSE SkipToSpace(str, ptr + 1)

\* The loops "while (*ptr && *ptr == ' ') ptr++".
RECURSIVE SkipSpaces(_, _)
SkipSpaces(str, ptr) ==
    IF At(str, ptr) = " " THEN SkipSpaces(str, ptr + 1) ELSE ptr

\* The loops "while (*ptr && isdigit(*ptr)) ptr++".
RECURSIVE SkipDigits(_, _)
SkipDigits(str, ptr) ==
    IF isdigit(At(str, ptr)) THEN SkipDigits(str, ptr + 1) ELSE ptr

(***************************************************************************)
(* Position serializer: board_to_fen (stockfish.c).                        *)
(***************************************************************************)
PieceSymbols == <<"P", "R", "N", "B", "Q", "K">>

piece_to_fen_char(piece) ==
    IF piece.type = EMPTY THEN "1"
    ELSE IF piece.color = WHITE THEN PieceSymbols[piece.type]
    ELSE tolower(PieceSymbols[piece.type])

RECURSIVE FenRow(_, _, _, _)
FenRow(game, row, col, empty_count) ==
    IF col = BOARD_SIZE
    THEN (IF empty_count > 0 THEN IntToStr(empty_count) ELSE <<>>)
    ELSE IF game.board[row][col].type = EMPTY
    THEN FenRow(game, row, col + 1, empty_count + 1)
    ELSE (IF empty_count > 0 THEN IntToStr(empty_count) ELSE <<>>)
         \o <<piece_to_fen_char(game.board[row][col])>>
         \o FenRow(game, row, col + 1, 0)

RECURSIVE FenBoard(_, _)
FenBoard(game, row) ==
    IF row = BOARD_SIZE THEN <<>>
    ELSE FenRow(game, row, 0, 0)
         \o (IF row < BOARD_SIZE - 1 THEN <<"/">> ELSE <<>>)
         \o FenBoard(game, row + 1)

FenCastling(game) ==
    LET w == IF ~game.white_king_moved
             THEN (IF ~game.white_rook_h_moved THEN <<"K">> ELSE <<>>)
                  \o (IF ~game.white_rook_a_moved THEN <<"Q">> ELSE <<>>)
             ELSE <<>>
        b == IF ~game.black_king_moved
             THEN (IF ~game.black_rook_h_moved THEN <<"k">> ELSE <<>>)
                  \o (IF ~game.black_rook_a_moved THEN <<"q">> ELSE <<>>)
             ELSE <<>>
    IN IF Len(w \o b) = 0 THEN <<"-">> ELSE w \o b

FenEnPassant(game) ==
    IF game.en_passant_available
       /\ game.en_passant_target.row >= 0 /\ game.en_passant_target.row < 8
       /\ game.en_passant_target.col >= 0 /\ game.en_passant_target.col < 8
    THEN <<LowerChars[game.en_passant_target.col + 1],
           DigitChars[(8 - game.en_passant_target.row) + 1]>>
    ELSE <<"-">>

board_to_fen(game) ==
    FenBoard(game, 0) \o <<" ">>
    \o <<IF game.current_player = WHITE THEN "w" ELSE "b">> \o <<" ">>
    \o FenCastling(game) \o <<" ">>
    \o FenEnPassant(game) \o <<" ">>
    \o IntToStr(game.halfmove_clock) \o <<" ">>
    \o IntToStr(game.fullmove_number)

(***************************************************************************)
(* Position decoder: validate_fen_string, calculate_captured_pieces and    *)
(* setup_board_from_fen (chess.c).                                         *)
(***************************************************************************)
char_to_piece_type(c) ==
    LET l == tolower(c)
    IN CASE l = "p" -> PAWN
         [] l = "r" -> ROOK
         [] l = "n" -> KNIGHT
         [] l = "b" -> BISHOP
         [] l = "q" -> QUEEN
         [] l = "k" -> KING
         [] OTHER   -> EMPTY

FenPieceLetters == {"r", "n", "b", "q", "k", "p", "R", "N", "B", "Q", "K", "P"}

\* The scan of validate_fen_string over one rank of the board field, from
\* ptr up to the next slash, space or terminator: whether every character
\* is allowed, where the scan stopped, and board_chars so far.
RECURSIVE ValidateRank(_, _, _)
ValidateRank(fen, ptr, board_chars) ==
    LET c == At(fen, ptr)
    IN IF c = NUL \/ c = " " \/ c = "/"
       THEN [ok |-> TRUE, ptr |-> ptr, board_chars |-> board_chars]
       ELSE IF isdigit(c)
       THEN (IF Ord(c) - 48 < 1 \/ Ord(c) - 48 > 8
             THEN [ok |-> FALSE, ptr |-> ptr, board_chars |-> board_chars]
             ELSE ValidateRank(fen, ptr + 1, board_chars + (Ord(c) - 48)))
       ELSE IF c \in FenPieceLetters
       THEN ValidateRank(fen, ptr + 1, board_chars + 1)
       ELSE [ok |-> FALSE, ptr |-> ptr, board_chars |-> board_chars]

\* The scan of the board field by validate_fen_string from index ptr on,
\* rank after rank: FALSE as soon as a character is not allowed, else
\* whether the field ends in a space after 7 slashes and 64 squares.
RECURSIVE ValidateBoardField(_, _, _, _)
ValidateBoardField(fen, ptr, slash_count, board_chars) ==
    LET After(rank) ==
            IF ~rank.ok THEN FALSE
            ELSE IF At(fen, rank.ptr) = "/"
            THEN ValidateBoardField(fen, rank.ptr + 1, slash_count + 1,
                                    rank.board_chars)
            ELSE slash_count = 7 /\ rank.board_chars = 64
                 /\ At(fen, rank.ptr) = " "
    IN After(ValidateRank(fen, ptr, board_chars))

validate_fen_string(fen) ==
    IF Len(fen) = 0 THEN FALSE ELSE ValidateBoardField(fen, 1, 0, 0)

StartingCount(piece_type) ==
    CASE piece_type = PAWN -> 8
      [] piece_type \in {ROOK, KNIGHT, BISHOP} -> 2
      [] piece_type \in {QUEEN, KING} -> 1
      [] OTHER -> 0

CurrentCount(game, color, piece_type) ==
    Cardinality({sq \in Squares :
        game.board[sq.row][sq.col] = Piece(piece_type, color)})

\* The pieces of one color missing from the board, kind by kind from PAWN
\* to KING, as many copies of each as are missing.
RECURSIVE MissingFrom(_, _, _)
MissingFrom(game, color, piece_type) ==
    LET Copies(captured) ==
            [i \in 1..(IF captured > 0 THEN captured ELSE 0)
                |-> Piece(piece_type, color)]
    IN IF piece_type > KING THEN <<>>
       ELSE Copies(StartingCount(piece_type)
                   - CurrentCount(game, color, piece_type))
            \o MissingFrom(game, color, piece_type + 1)

calculate_captured_pieces(game) ==
    [game EXCEPT !.black_captured = MissingFrom(game, WHITE, PAWN),
                 !.white_captured = MissingFrom(game, BLACK, PAWN)]

\* The index at which the board-field loop of setup_board_from_fen stops:
\* the first that holds the terminator or a space, or the one after the
\* eighth slash if that comes earlier (row = BOARD_SIZE).
BoardLoopEnd(fen) ==
    LET Before(space) ==
            LET Eighth(slashes) ==
                    IF Cardinality(slashes) < BOARD_SIZE THEN space
                    ELSE 1 + CHOOSE i \in slashes :
                               Cardinality({j \in slashes : j < i}) =
                                   BOARD_SIZE - 1
            IN Eighth({i \in 1..(space - 1) : fen[i] = "/"})
    IN Before(CHOOSE i \in 1..(Len(fen) + 1) :
                  /\ At(fen, i) \in {NUL, " "}
                  /\ \A j \in 1..(i - 1) : fen[j] # " ")

\* The row and the column the board-field loop is at when it reads index
\* ptr: a slash before ptr has moved it one row down and back to column 0,
\* a digit since the last slash as many columns right as it says, and any
\* other character one column right.
LoopRow(fen, ptr) == Cardinality({i \in 1..(ptr - 1) : fen[i] = "/"})

LoopCol(fen, ptr) ==
    LET Since(first) ==
            Cardinality({ik \in (first..(ptr - 1)) \X (1..9) :
                ik[2] <= (IF isdigit(fen[ik[1]]) THEN Ord(fen[ik[1]]) - 48
                          ELSE 1)})
    IN Since(IF \E i \in 1..(ptr - 1) : fen[i] = "/"
             THEN 1 + CHOOSE i \in 1..(ptr - 1) :
                          /\ fen[i] = "/"
                          /\ \A j \in (i + 1)..(ptr - 1) : fen[j] # "/"
             ELSE 1)

\* The board-field loop of setup_board_from_fen: every character before
\* the end of the loop that is neither a slash nor a digit is written as a
\* piece on the square the loop is at, if that square is on the board, and
\* a king's square is recorded; the last king of a color read is the one
\* that stays recorded.  The result is the game and the index the loop
\* stopped at.
ParseBoard(game, fen) ==
    LET Fill(written) ==
            LET Found(piece_color) ==
                    {w \in written : w.piece = Piece(KING, piece_color)}
                Last(kings) ==
                    LET w == CHOOSE w \in kings :
                                 \A v \in kings : v.ptr <= w.ptr
                    IN Pos(w.row, w.col)
            IN [game EXCEPT
                  !.board = [row \in Rows |-> [col \in Rows |->
                      IF \E w \in written : w.row = row /\ w.col = col
                      THEN (CHOOSE w \in written :
                                w.row = row /\ w.col = col).piece
                      ELSE game.board[row][col]]],
                  !.white_king_pos = IF Found(WHITE) = {} THEN @
                                     ELSE Last(Found(WHITE)),
                  !.black_king_pos = IF Found(BLACK) = {} THEN @
                                     ELSE Last(Found(BLACK))]
        Loop(end) ==
            [game |-> Fill({w \in
                         {[ptr |-> i, row |-> LoopRow(fen, i),
                           col |-> LoopCol(fen, i),
                           piece |-> Piece(
                               char_to_piece_type(tolower(fen[i])),
                               IF isupper(fen[i]) THEN WHITE ELSE BLACK)] :
                          i \in {j \in 1..(end - 1) :
                                    fen[j] # "/" /\ ~isdigit(fen[j])}} :
                         w.row < BOARD_SIZE /\ w.col < BOARD_SIZE}),
             ptr |-> end]
    IN Loop(BoardLoopEnd(fen))

\* The sections of setup_board_from_fen after the board field.  Each takes
\* the game and the index the section before it stopped at, in c, and
\* yields the game and the index it stops at.
ParseActiveColor(c, fen) ==
    LET Color(p) ==
            [game |-> [c.game EXCEPT !.current_player =
                          IF At(fen, p) \in {"b", "B"} THEN BLACK ELSE WHITE],
             ptr |-> p]
    IN Color(IF At(fen, c.ptr) = " " THEN c.ptr + 1 ELSE c.ptr)

ParseCastling(c, fen) ==
    LET Rights(first, stop) ==
            LET has(ch) == \E i \in first..(stop - 1) : fen[i] = ch
            IN [game |-> [c.game EXCEPT
                    !.white_king_moved = ~(has("K") \/ has("Q")),
                    !.black_king_moved = ~(has("k") \/ has("q")),
                    !.white_rook_a_moved = ~has("Q"),
                    !.white_rook_h_moved = ~has("K"),
                    !.black_rook_a_moved = ~has("q"),
                    !.black_rook_h_moved = ~has("k")],
                ptr |-> stop]
        Field(first) == Rights(first, SkipToSpace(fen, first))
        Skipped(p) == Field(IF At(fen, p) = " " THEN p + 1 ELSE p)
    IN Skipped(SkipToSpace(fen, c.ptr))

ParseEnPassant(c, fen) ==
    LET Target(p) ==
            LET has_file == At(fen, p) \notin {NUL, "-", " "}
                            /\ Ord(At(fen, p)) >= Ord("a")
                            /\ Ord(At(fen, p)) <= Ord("h")
                has_ep == has_file /\ Ord(At(fen, p + 1)) >= Ord("1")
                                   /\ Ord(At(fen, p + 1)) <= Ord("8")
            IN [game |-> [c.game EXCEPT
                    !.en_passant_available = has_ep,
                    !.en_passant_target =
                        IF has_ep
                        THEN Pos(Ord("8") - Ord(At(fen, p + 1)),
                                 Ord(At(fen, p)) - Ord("a"))
                        ELSE NoPos],
                ptr |-> SkipToSpace(fen, IF has_ep THEN p + 2
                                         ELSE IF has_file THEN p + 1 ELSE p)]
    IN Target(SkipSpaces(fen, c.ptr))

ParseHalfmoveClock(c, fen) ==
    LET Number(p) ==
            IF isdigit(At(fen, p))
            THEN [game |-> [c.game EXCEPT !.halfmove_clock = atoi(fen, p)],
                  ptr |-> SkipDigits(fen, p)]
            ELSE [game |-> [c.game EXCEPT !.halfmove_clock = 0], ptr |-> p]
    IN Number(SkipSpaces(fen, c.ptr))

ParseFullmoveNumber(c, fen) ==
    LET Number(p) ==
            IF isdigit(At(fen, p))
            THEN [game |-> [c.game EXCEPT !.fullmove_number = atoi(fen, p)],
                  ptr |-> SkipDigits(fen, p)]
            ELSE [game |-> [c.game EXCEPT !.fullmove_number = 1], ptr |-> p]
    IN Number(SkipSpaces(fen, c.ptr))

\* setup_board_from_fen as it would be if its last test looked for the
\* White king only.
setup_looking_for_white_king_only(game, fen) ==
    LET Verify(g) ==
            IF g.white_king_pos.row = -1
            THEN [ret |-> FALSE, game |-> g]
            ELSE [ret |-> TRUE, game |-> UpdateCheckStatus(g)]
        cleared == [game EXCEPT
                      !.white_king_pos = NoPos,
                      !.black_king_pos = NoPos,
                      !.board = [r \in Rows |-> [col \in Rows |-> NoPiece]]]
    IN IF ~validate_fen_string(fen) THEN [ret |-> FALSE, game |-> game]
       ELSE Verify(calculate_captured_pieces(
                ParseFullmoveNumber(
                  ParseHalfmoveClock(
                    ParseEnPassant(
                      ParseCastling(
                        ParseActiveColor(
                          ParseBoard(cleared, fen),
                          fen),
                        fen),
                      fen),
                    fen),
                  fen).game))

setup_board_from_fen(game, fen) ==
    LET Verify(g) ==
            IF g.white_king_pos.row = -1 \/ g.black_king_pos.row = -1
            THEN [ret |-> FALSE, game |-> g]
            ELSE [ret |-> TRUE, game |-> UpdateCheckStatus(g)]
        cleared == [game EXCEPT
                      !.white_king_pos = NoPos,
                      !.black_king_pos = NoPos,
                      !.board = [r \in Rows |-> [col \in Rows |-> NoPiece]]]
    IN IF ~validate_fen_string(fen) THEN [ret |-> FALSE, game |-> game]
       ELSE Verify(calculate_captured_pieces(
                ParseFullmoveNumber(
                  ParseHalfmoveClock(
                    ParseEnPassant(
                      ParseCastling(
                        ParseActiveColor(
                          ParseBoard(cleared, fen),
                          fen),
                        fen),
                      fen),
                    fen),
                  fen).game))

(***************************************************************************)
(* Inputs.  The strings the user may type at the SETUP prompt.             *)
(***************************************************************************)
\* "8/8/8/KPp4r/8/8/8/7k w - c6 0 1"
\* White pawn b5 may take c5 en passant; the c5 pawn shields the king on a5 from the rook on h5.
FenEnPassantPin ==
    <<"8", "/", "8", "/", "8", "/", "K", "P", "p", "4", "r", "/", "8", "/", "8", "/", "8", "/", "7", "k", " ", "w", " ", "-", " ", "c", "6", " ", "0", " ", "1">>

\* "1r5k/8/8/Ppp5/K7/7r/8/8 w - b6 0 1"
\* The pawn that just came to b5 checks the king on a4; a5xb6 en passant is the only way out.
FenEnPassantEscape ==
    <<"1", "r", "5", "k", "/", "8", "/", "8", "/", "P", "p", "p", "5", "/", "K", "7", "/", "7", "r", "/", "8", "/", "8", " ", "w", " ", "-", " ", "b", "6", " ", "0", " ", "1">>

\* "4k3/8/8/8/8/8/4p3/4K2R w K - 0 1"
\* Black pawn e2 attacks d1 and f1; White still has the kingside right.
FenCastlePawn ==
    <<"4", "k", "3", "/", "8", "/", "8", "/", "8", "/", "8", "/", "8", "/", "4", "p", "3", "/", "4", "K", "2", "R", " ", "w", " ", "K", " ", "-", " ", "0", " ", "1">>

\* "r3k2r/8/8/8/8/8/8/R3K2R w KQkq - 3 10"
\* Both sides hold all four rights.
FenCastleBoth ==
    <<"r", "3", "k", "2", "r", "/", "8", "/", "8", "/", "8", "/", "8", "/", "8", "/", "8", "/", "R", "3", "K", "2", "R", " ", "w", " ", "K", "Q", "k", "q", " ", "-", " ", "3", " ", "1", "0">>

\* "4k3/P7/8/8/8/8/7p/4K3 w - - 0 40"
\* A pawn of each side is one step from promotion.
FenPromotion ==
    <<"4", "k", "3", "/", "P", "7", "/", "8", "/", "8", "/", "8", "/", "8", "/", "7", "p", "/", "4", "K", "3", " ", "w", " ", "-", " ", "-", " ", "0", " ", "4", "0">>

\* "4k3/8/8/8/8/8/8/K3K3 w - - 0 1"
\* Two white kings.
FenTwoKings ==
    <<"4", "k", "3", "/", "8", "/", "8", "/", "8", "/", "8", "/", "8", "/", "8", "/", "K", "3", "K", "3", " ", "w", " ", "-", " ", "-", " ", "0", " ", "1">>

\* "8/8/8/8/8/8/8/K7 w - - 0 1"
\* No black king.
FenNoBlackKing ==
    <<"8", "/", "8", "/", "8", "/", "8", "/", "8", "/", "8", "/", "8", "/", "K", "7", " ", "w", " ", "-", " ", "-", " ", "0", " ", "1">>

\* "4k3/8/2P5/1P6/8/8/8/4K3 w - c6 0 1"
\* The en-passant field names c6, on which a White pawn stands, next to the White pawn on b5.
FenEnPassantOnOwnPawn ==
    <<"4", "k", "3", "/", "8", "/", "2", "P", "5", "/", "1", "P", "6", "/", "8", "/", "8", "/", "8", "/", "4", "K", "3", " ", "w", " ", "-", " ", "c", "6", " ", "0", " ", "1">>

\* "1n2k3/P7/8/8/8/8/7p/4K1N1 w - - 0 40"
\* A pawn of each side may promote straight ahead or by taking a knight.
FenPromotionCapture ==
    <<"1", "n", "2", "k", "3", "/", "P", "7", "/", "8", "/", "8", "/", "8", "/", "8", "/", "7", "p", "/", "4", "K", "1", "N", "1", " ", "w", " ", "-", " ", "-", " ", "0", " ", "4", "0">>

\* "invalid_fen"
\* Not a FEN string at all (micro_test.c).
FenInvalid ==
    <<"i", "n", "v", "a", "l", "i", "d", "_", "f", "e", "n">>

FenInputs ==
    {FenEnPassantPin,
     FenEnPassantEscape,
     FenCastlePawn,
     FenCastleBoth,
     FenPromotion,
     FenTwoKings,
     FenNoBlackKing,
     FenEnPassantOnOwnPawn,
     FenPromotionCapture,
     FenInvalid}

\* The move texts the user may type and the engine may answer, as
\* origin square followed by destination square.
MoveTokens ==
    {<<"e", "2", "e", "4">>,
     <<"e", "7", "e", "5">>,
     <<"d", "1", "h", "5">>,
     <<"b", "8", "c", "6">>,
     <<"f", "1", "c", "4">>,
     <<"g", "8", "f", "6">>,
     <<"h", "5", "f", "7">>,
     <<"e", "4", "e", "5">>,
     <<"d", "7", "d", "5">>,
     <<"e", "5", "d", "6">>,
     <<"b", "5", "c", "6">>,
     <<"h", "5", "a", "5">>,
     <<"a", "5", "a", "4">>,
     <<"a", "5", "b", "6">>,
     <<"e", "1", "g", "1">>,
     <<"e", "1", "c", "1">>,
     <<"e", "8", "g", "8">>,
     <<"e", "8", "c", "8">>,
     <<"a", "1", "a", "8">>,
     <<"h", "1", "h", "8">>,
     <<"e", "8", "d", "7">>,
     <<"e", "2", "e", "1">>,
     <<"a", "7", "a", "8">>,
     <<"h", "2", "h", "1">>,
     <<"e", "1", "d", "2">>,
     <<"e", "8", "e", "7">>}

\* Texts that name no move: a square off the board, the engine's "(none)",
\* a text shorter than four characters.
BadTokens ==
    {<<"e", "9", "e", "5">>,
     <<"(", "n", "o", "n", "e", ")">>,
     <<"e", "2">>}

\* Move texts of the engine that carry a fifth character, as UCI writes a
\* promotion, and one whose fifth character names no piece.
PromotionTokens ==
    {<<"h", "2", "h", "1", "q">>,
     <<"h", "2", "h", "1", "r">>,
     <<"h", "2", "h", "1", "b">>,
     <<"h", "2", "h", "1", "n">>,
     <<"h", "2", "h", "1", "x">>}

PromotionChoices == {QUEEN, KNIGHT}

(***************************************************************************)
(* Move text parsing (chess.c char_to_position, stockfish.c                *)
(* parse_move_string).                                                     *)
(***************************************************************************)
char_to_position(input) ==
    IF Len(input) # 2 THEN NoPos
    ELSE IF Ord(input[1]) >= Ord("a") /\ Ord(input[1]) <= Ord("h")
            /\ Ord(input[2]) >= Ord("1") /\ Ord(input[2]) <= Ord("8")
    THEN Pos(Ord("8") - Ord(input[2]), Ord(input[1]) - Ord("a"))
    ELSE NoPos

parse_move_string(move_str) ==
    IF Len(move_str) < 4
    THEN [from |-> NoPos, to |-> NoPos,
          is_promotion |-> FALSE, promotion_piece |-> EMPTY]
    ELSE [from |-> Pos(Ord("8") - Ord(move_str[2]), Ord(move_str[1]) - Ord("a")),
          to |-> Pos(Ord("8") - Ord(move_str[4]), Ord(move_str[3]) - Ord("a")),
          is_promotion |-> FALSE, promotion_piece |-> EMPTY]

(***************************************************************************)
(* The FEN log file (main.c): one line per entry.                          *)
(***************************************************************************)
save_fen_log(log, game) == Append(log, board_to_fen(game))

count_available_undos(log) ==
    IF Len(log) > 2 THEN (Len(log) - 1) \div 2 ELSE 0

\* truncate_fen_log_by_moves as it would be if it removed one line for
\* each move pair instead of two.
truncate_one_line_per_pair(log, move_pairs_to_undo) ==
    LET lines_to_remove == move_pairs_to_undo
    IN IF Len(log) > lines_to_remove
       THEN SubSeq(log, 1, Len(log) - lines_to_remove)
       ELSE log

\* truncate_fen_log_by_moves as it would be if it rewrote the file however
\* many lines it is asked to remove.
truncate_without_guard(log, move_pairs_to_undo) ==
    SubSeq(log, 1, Len(log) - move_pairs_to_undo * 2)

truncate_fen_log_by_moves(log, move_pairs_to_undo) ==
    LET lines_to_remove == move_pairs_to_undo * 2
    IN IF Len(log) > lines_to_remove
       THEN SubSeq(log, 1, Len(log) - lines_to_remove)
       ELSE log

restore_from_fen_log(game, log) ==
    LET last_fen == IF Len(log) = 0 THEN <<>> ELSE log[Len(log)]
    IN IF Len(last_fen) = 0 THEN [ret |-> FALSE, game |-> game]
       ELSE setup_board_from_fen(game, last_fen)

(***************************************************************************)
(* The command handlers of the game loop (main.c), each as the game and    *)
(* log it leaves behind together with what it reports.                     *)
(***************************************************************************)
Handled(g, log, ret, from, to) ==
    [game |-> g, fen_log |-> log, ret |-> ret, from |-> from, to |-> to]

\* handle_move_execution: the user types an origin and a destination;
\* promotion_choice is the answer to the promotion prompt, if it comes.
handle_move_execution(g, log, text, promotion_choice) ==
    LET Execute(from, to) ==
            LET Made(r) ==
                    IF r.ret
                    THEN Handled(r.game, save_fen_log(log, r.game), TRUE,
                                 from, to)
                    ELSE Handled(r.game, log, FALSE, NoPos, NoPos)
            IN IF ~is_valid_position(from.row, from.col)
                  \/ ~is_valid_position(to.row, to.col)
               THEN Handled(g, log, FALSE, NoPos, NoPos)
               ELSE Made(make_move(g, from, to, promotion_choice))
    IN Execute(char_to_position(SubSeq(text, 1, 2)),
               char_to_position(SubSeq(text, 3, 4)))

\* handle_black_turn: reply.got says whether get_best_move produced a
\* move text, reply.move_str is that text.
handle_black_turn(g, log, reply, promotion_choice) ==
    IF ~reply.got
    THEN Handled([g EXCEPT !.current_player = WHITE], log, FALSE, NoPos, NoPos)
    ELSE LET Execute(ai_move) ==
                 LET Made(r) ==
                         IF r.ret
                         THEN Handled(r.game, save_fen_log(log, r.game), TRUE,
                                      ai_move.from, ai_move.to)
                         ELSE Handled([r.game EXCEPT !.current_player = WHITE],
                                      log, FALSE, NoPos, NoPos)
                 IN IF ~(is_valid_position(ai_move.from.row, ai_move.from.col)
                         /\ is_valid_position(ai_move.to.row, ai_move.to.col))
                    THEN Handled([g EXCEPT !.current_player = WHITE], log,
                                 FALSE, NoPos, NoPos)
                    ELSE Made(execute_move(g, ai_move, promotion_choice))
         IN Execute(parse_move_string(reply.move_str))

\* The undo command as it would be if it clamped a count above the number
\* of pairs available to that number instead of refusing it.
UndoCommandClamping(g, log, undo_count) ==
    LET available_undos == count_available_undos(log)
        Restored(cut, r) == Handled(r.game, cut, r.ret, NoPos, NoPos)
        TakeBack(cut) == Restored(cut, restore_from_fen_log(g, cut))
    IN IF available_undos > 1
       THEN IF undo_count >= 1
            THEN TakeBack(truncate_fen_log_by_moves(log,
                     IF undo_count > available_undos THEN available_undos
                     ELSE undo_count))
            ELSE Handled(g, log, FALSE, NoPos, NoPos)
       ELSE IF available_undos > 0
       THEN TakeBack(truncate_fen_log_by_moves(log, 1))
       ELSE Handled(g, log, FALSE, NoPos, NoPos)

\* The undo command of handle_game_commands; undo_count is what the user
\* answers when asked how many move pairs to take back.
UndoCommand(g, log, undo_count) ==
    LET available_undos == count_available_undos(log)
        Restored(cut, r) == Handled(r.game, cut, r.ret, NoPos, NoPos)
        TakeBack(cut) == Restored(cut, restore_from_fen_log(g, cut))
    IN IF available_undos > 1
       THEN IF undo_count >= 1 /\ undo_count <= available_undos
            THEN TakeBack(truncate_fen_log_by_moves(log, undo_count))
            ELSE Handled(g, log, FALSE, NoPos, NoPos)
       ELSE IF available_undos > 0
       THEN TakeBack(truncate_fen_log_by_moves(log, 1))
       ELSE Handled(g, log, FALSE, NoPos, NoPos)

\* The setup command of handle_game_commands, with reset_fen_log_for_setup
\* starting a new log file on success.
SetupCommand(g, log, fen_input) ==
    LET Done(r) ==
            IF r.ret
            THEN Handled(r.game, save_fen_log(<<>>, r.game), TRUE, NoPos, NoPos)
            ELSE Handled(r.game, log, FALSE, NoPos, NoPos)
    IN Done(setup_board_from_fen(g, fen_input))

(***************************************************************************)
(* Time control (chess.c): parse_time_control's result, init_game_timer,   *)
(* start_move_timer, stop_move_timer and check_time_forfeit.  The code     *)
(* reads the wall clock only to subtract move_start_time from it; elapsed  *)
(* is that difference while the timer runs, and 0 while it does not.       *)
(***************************************************************************)
TimeControl(white_minutes, white_increment, black_minutes, black_increment) ==
    [white_minutes |-> white_minutes, white_increment |-> white_increment,
     black_minutes |-> black_minutes, black_increment |-> black_increment,
     enabled |-> \/ white_minutes > 0 \/ white_increment > 0
                 \/ black_minutes > 0 \/ black_increment > 0]

\* DefaultTimeControl=0/0 in the configuration file: no time control.
NoTimeControl == TimeControl(0, 0, 0, 0)

init_game_timer(time_control) ==
    [time_control |-> time_control,
     timer |-> [white_time_seconds |->
                    IF time_control.enabled
                    THEN time_control.white_minutes * 60 ELSE 0,
                black_time_seconds |->
                    IF time_control.enabled
                    THEN time_control.black_minutes * 60 ELSE 0,
                timing_active |-> FALSE,
                elapsed |-> 0,
                timer_player |-> WHITE],
     forfeit |-> FALSE,
     winner |-> WHITE]

start_move_timer(c, current_player) ==
    IF ~c.time_control.enabled THEN c
    ELSE IF ~c.timer.timing_active \/ c.timer.timer_player # current_player
    THEN [c EXCEPT !.timer.timing_active = TRUE,
                   !.timer.timer_player = current_player,
                   !.timer.elapsed = 0]
    ELSE c

\* The seconds left after a move: what was stored less the time taken plus
\* the increment, and 0 if that is negative.
TimeAfterMove(seconds, elapsed, increment) ==
    IF seconds - elapsed + increment < 0 THEN 0
    ELSE seconds - elapsed + increment

stop_move_timer(c) ==
    IF ~c.time_control.enabled \/ ~c.timer.timing_active THEN c
    ELSE IF c.timer.timer_player = WHITE
    THEN [c EXCEPT !.timer.white_time_seconds =
                       TimeAfterMove(@, c.timer.elapsed,
                                     c.time_control.white_increment),
                   !.timer.timing_active = FALSE,
                   !.timer.elapsed = 0]
    ELSE [c EXCEPT !.timer.black_time_seconds =
                       TimeAfterMove(@, c.timer.elapsed,
                                     c.time_control.black_increment),
                   !.timer.timing_active = FALSE,
                   !.timer.elapsed = 0]

check_time_forfeit(c) ==
    IF ~c.time_control.enabled THEN FALSE
    ELSE IF c.timer.timing_active
    THEN (IF c.timer.timer_player = WHITE
          THEN c.timer.white_time_seconds - c.timer.elapsed <= 0
          ELSE c.timer.black_time_seconds - c.timer.elapsed <= 0)
    ELSE c.timer.white_time_seconds <= 0 \/ c.timer.black_time_seconds <= 0

\* The wall clock advances by seconds while a prompt or the engine blocks.
TimePasses(c, seconds) ==
    IF c.timer.timing_active THEN [c EXCEPT !.timer.elapsed = @ + seconds]
    ELSE c

(***************************************************************************)
(* The game loop (main.c).                                                 *)
(*   game     the ChessGame                                                *)
(*   fen_log  the lines of the FEN log file                                *)
(*   running  the while loop of main has not reached a break               *)
(*   last     the last command that changed the game or the log, or whose  *)
(*            answer to the undo question was refused, and its outcome     *)
(*   calls    the frames of get_king_moves and is_square_attacked on the   *)
(*            call stack, innermost last, while a query is followed step   *)
(*            by step; empty between the commands of the loop              *)
(*   clock    the time_control and the timer of the ChessGame, and the      *)
(*            winner the loop has announced for a time forfeit             *)
(***************************************************************************)
VARIABLES game, fen_log, running, last, calls, clock

vars == <<game, fen_log, running, last, calls, clock>>

Outcome(op, h, count) ==
    [op |-> op, ret |-> h.ret, from |-> h.from, to |-> h.to, count |-> count]

\* A command that is refused and leaves the game and the log as they were
\* only prints a message.
Refused(h) == ~h.ret /\ h.game = game /\ h.fen_log = fen_log

\* The exit tests as they would be if they never found the game over.
NeverOver(g) == [ret |-> FALSE, game |-> g]

\* The loop's exit tests, made at the top of every iteration one after the
\* other: whether the loop breaks, and the game the tests leave behind.
GameOver(g) ==
    LET Draw(s) ==
            IF s.ret THEN s
            ELSE [ret |-> is_fifty_move_rule_draw(s.game), game |-> s.game]
        Stale(m) ==
            IF m.ret THEN m
            ELSE Draw(is_stalemate(m.game, m.game.current_player))
    IN Stale(is_checkmate(g, g.current_player))

\* What the user may type as a move: two squares, on the board or not.
MoveTexts == MoveTokens \cup {t \in BadTokens : Len(t) = 4}

\* What get_best_move may come back with.
EngineReplies ==
    {[got |-> FALSE, move_str |-> <<>>]}
    \cup {[got |-> TRUE, move_str |-> t] :
             t \in MoveTokens \cup BadTokens \cup PromotionTokens}

\* The promotion prompt appears only for a pawn reaching its last rank.
ChoicesFor(g, from, to) ==
    IF is_valid_position(from.row, from.col)
       /\ is_valid_position(to.row, to.col)
       /\ is_promotion_move(g, from, to)
    THEN PromotionChoices ELSE {QUEEN}

\* The undo command asks for a count only when more than one pair can be
\* taken back; without the question the command stands for one pair.
UndoAnswers(log) ==
    IF count_available_undos(log) > 1 THEN 0..MaxUndo ELSE {1}

Init ==
    /\ game = init_board
    /\ fen_log = save_fen_log(<<>>, init_board)
    /\ running = TRUE
    /\ last = [op |-> "init", ret |-> TRUE, from |-> NoPos, to |-> NoPos,
               count |-> 0]
    /\ calls = <<>>
    /\ clock = init_game_timer(NoTimeControl)

WhiteMove ==
    /\ running /\ game.current_player = WHITE
    /\ Len(fen_log) < MaxLog
    /\ \E top \in {GameOver(game)} :
       /\ ~top.ret
       /\ \E text \in MoveTexts :
          \E promotion_choice \in
               ChoicesFor(top.game, char_to_position(SubSeq(text, 1, 2)),
                          char_to_position(SubSeq(text, 3, 4))) :
          \E h \in {handle_move_execution(top.game, fen_log, text, promotion_choice)} :
                /\ game' = h.game
                /\ fen_log' = h.fen_log
                /\ last' = IF Refused(h) THEN last ELSE Outcome("white_move", h, 0)
                /\ UNCHANGED <<running, calls, clock>>

BlackTurn ==
    /\ running /\ game.current_player = BLACK
    /\ Len(fen_log) < MaxLog
    /\ \E top \in {GameOver(game)} :
       /\ ~top.ret
       /\ \E reply \in EngineReplies :
          \E promotion_choice \in
               ChoicesFor(top.game, parse_move_string(reply.move_str).from,
                          parse_move_string(reply.move_str).to) :
          \E h \in {handle_black_turn(top.game, fen_log, reply, promotion_choice)} :
                /\ game' = h.game
                /\ fen_log' = h.fen_log
                /\ last' = IF Refused(h) THEN last ELSE Outcome("black_turn", h, 0)
                /\ UNCHANGED <<running, calls, clock>>

Undo ==
    /\ running /\ game.current_player = WHITE
    /\ \E top \in {GameOver(game)} :
       /\ ~top.ret
       /\ \E undo_count \in UndoAnswers(fen_log) :
          \E h \in {UndoCommand(top.game, fen_log, undo_count)} :
                /\ game' = h.game
                /\ fen_log' = h.fen_log
                /\ last' = IF Refused(h) /\ count_available_undos(fen_log) <= 1
                           THEN last ELSE Outcome("undo", h, undo_count)
                /\ UNCHANGED <<running, calls, clock>>

Setup ==
    /\ running /\ game.current_player = WHITE
    /\ \E top \in {GameOver(game)} :
       /\ ~top.ret
       /\ \E fen_input \in FenInputs :
          \E h \in {SetupCommand(top.game, fen_log, fen_input)} :
                /\ game' = h.game
                /\ fen_log' = h.fen_log
                /\ last' = IF Refused(h) THEN last ELSE Outcome("setup", h, 0)
                /\ UNCHANGED <<running, calls, clock>>

\* The loop ends on checkmate, stalemate or the fifty-move rule.
EndGame ==
    /\ running
    /\ ~check_time_forfeit(clock)
    /\ \E top \in {GameOver(game)} :
          /\ top.ret
          /\ game' = top.game
    /\ running' = FALSE
    /\ last' = [op |-> "end", ret |-> TRUE, from |-> NoPos, to |-> NoPos,
                count |-> 0]
    /\ UNCHANGED <<fen_log, calls, clock>>

Next == WhiteMove \/ BlackTurn \/ Undo \/ Setup \/ EndGame

Spec == Init /\ [][Next]_vars

(***************************************************************************)
(* Play from the starting position without commands: White and the engine  *)
(* take turns along lines that lead a White pawn to promotion.             *)
(***************************************************************************)
\* MaxPlay caps the number of lines the FEN log may grow to in such play.
MaxPlay == 10

\* The move texts of this play.
PlayTokens ==
    {<<"h", "2", "h", "4">>,
     <<"h", "4", "h", "5">>,
     <<"h", "5", "h", "6">>,
     <<"h", "6", "g", "7">>,
     <<"g", "7", "h", "8">>,
     <<"g", "1", "f", "3">>,
     <<"f", "3", "g", "1">>,
     <<"a", "7", "a", "6">>,
     <<"a", "6", "a", "5">>,
     <<"a", "5", "a", "4">>,
     <<"a", "4", "a", "3">>,
     <<"b", "8", "c", "6">>,
     <<"c", "6", "b", "8">>}

\* The engine answers with a move that is legal in the position it is given.
PlayReplies(g) ==
    {[got |-> TRUE, move_str |-> t] :
        t \in {u \in PlayTokens :
                  is_valid_move(g, parse_move_string(u).from,
                                parse_move_string(u).to).ret}}

PlayWhite ==
    /\ running /\ game.current_player = WHITE
    /\ Len(fen_log) < MaxPlay
    /\ \E top \in {GameOver(game)} :
       /\ ~top.ret
       /\ \E text \in PlayTokens :
          \E promotion_choice \in
               ChoicesFor(top.game, char_to_position(SubSeq(text, 1, 2)),
                          char_to_position(SubSeq(text, 3, 4))) :
          \E h \in {handle_move_execution(top.game, fen_log, text, promotion_choice)} :
                /\ game' = h.game
                /\ fen_log' = h.fen_log
                /\ last' = IF Refused(h) THEN last ELSE Outcome("white_move", h, 0)
                /\ UNCHANGED <<running, calls, clock>>

PlayBlack ==
    /\ running /\ game.current_player = BLACK
    /\ Len(fen_log) < MaxPlay
    /\ \E top \in {GameOver(game)} :
       /\ ~top.ret
       /\ \E reply \in PlayReplies(top.game) :
          \E promotion_choice \in
               ChoicesFor(top.game, parse_move_string(reply.move_str).from,
                          parse_move_string(reply.move_str).to) :
          \E h \in {handle_black_turn(top.game, fen_log, reply, promotion_choice)} :
                /\ game' = h.game
                /\ fen_log' = h.fen_log
                /\ last' = IF Refused(h) THEN last ELSE Outcome("black_turn", h, 0)
                /\ UNCHANGED <<running, calls, clock>>

PlayNext == PlayWhite \/ PlayBlack

PlaySpec == Init /\ [][PlayNext]_vars

(***************************************************************************)
(* Play after an imported position: en passant for either side, the last   *)
(* half-move before the fifty-move rule, castling rights left without the  *)
(* rook, two kings of one color.                                           *)
(***************************************************************************)
\* MaxCase caps the number of lines the FEN log may grow to in such play.
MaxCase == 6

\* "4k3/8/8/3pP3/8/8/8/4K3 w - d6 0 1"
\* Black's d-pawn has just advanced two rows past the White pawn on e5.
FenEnPassantWhite ==
    <<"4", "k", "3", "/", "8", "/", "8", "/", "3", "p", "P", "3", "/", "8", "/", "8", "/", "8", "/", "4", "K", "3", " ", "w", " ", "-", " ", "d", "6", " ", "0", " ", "1">>

\* "4k3/8/8/8/3pP3/8/8/4K3 b - e3 0 1"
\* White's e-pawn has just advanced two rows past the Black pawn on d4.
FenEnPassantBlack ==
    <<"4", "k", "3", "/", "8", "/", "8", "/", "8", "/", "3", "p", "P", "3", "/", "8", "/", "8", "/", "4", "K", "3", " ", "b", " ", "-", " ", "e", "3", " ", "0", " ", "1">>

\* "4k3/8/8/8/8/8/8/4K2R w - - 99 80"
\* One half-move short of the fifty-move rule.
FenClock99 ==
    <<"4", "k", "3", "/", "8", "/", "8", "/", "8", "/", "8", "/", "8", "/", "8", "/", "4", "K", "2", "R", " ", "w", " ", "-", " ", "-", " ", "9", "9", " ", "8", "0">>

\* "4k3/8/8/8/8/8/8/4K2n w K - 0 1"
\* White holds the king-side castling right, and a Black knight stands on h1.
FenCastleKnight ==
    <<"4", "k", "3", "/", "8", "/", "8", "/", "8", "/", "8", "/", "8", "/", "8", "/", "4", "K", "2", "n", " ", "w", " ", "K", " ", "-", " ", "0", " ", "1">>

\* "3rk3/8/8/8/8/8/8/K3K3 w - - 0 1"
\* Two White kings, and a Black rook that attacks the d-file.
FenTwoKingsRook ==
    <<"3", "r", "k", "3", "/", "8", "/", "8", "/", "8", "/", "8", "/", "8", "/", "8", "/", "K", "3", "K", "3", " ", "w", " ", "-", " ", "-", " ", "0", " ", "1">>

\* A second rank of nine squares and a first rank of seven.
FenNineAndSeven ==
    <<"4", "k", "3", "/", "8", "/", "8", "/", "8", "/", "8", "/", "8", "/", "P", "P", "P", "P", "P", "P", "P", "P", "P", "/", "4", "K", "2", " ", "w", " ", "-", " ", "-", " ", "0", " ", "1">>

\* Black has four queens and a king; a White rook stands under three of them.
FenFourQueens ==
    <<"3", "q", "k", "3", "/", "8", "/", "8", "/", "8", "/", "q", "7", "/", "q", "7", "/", "q", "7", "/", "R", "3", "K", "3", " ", "w", " ", "-", " ", "-", " ", "0", " ", "1">>

CaseFens ==
    {FenFourQueens,
     FenNineAndSeven,
     FenEnPassantWhite,
     FenEnPassantBlack,
     FenClock99,
     FenCastleKnight,
     FenTwoKingsRook}

\* The move texts of this play.
CaseTokens ==
    {<<"e", "5", "d", "6">>,
     <<"d", "4", "e", "3">>,
     <<"e", "5", "e", "6">>,
     <<"d", "4", "d", "3">>,
     <<"h", "1", "h", "2">>,
     <<"h", "1", "g", "1">>,
     <<"e", "1", "g", "1">>,
     <<"e", "1", "d", "2">>,
     <<"e", "1", "e", "2">>,
     <<"e", "1", "d", "1">>,
     <<"e", "8", "e", "7">>,
     <<"e", "8", "d", "7">>,
     <<"a", "1", "a", "2">>,
     <<"a", "2", "a", "3">>,
     <<"a", "3", "a", "4">>,
     <<"d", "8", "d", "7">>}

CaseReplies == {[got |-> TRUE, move_str |-> t] : t \in CaseTokens}

CaseSetup ==
    /\ running /\ game.current_player = WHITE
    /\ \E top \in {GameOver(game)} :
       /\ ~top.ret
       /\ \E fen_input \in CaseFens :
          \E h \in {SetupCommand(top.game, fen_log, fen_input)} :
                /\ game' = h.game
                /\ fen_log' = h.fen_log
                /\ last' = IF Refused(h) THEN last ELSE Outcome("setup", h, 0)
                /\ UNCHANGED <<running, calls, clock>>

CaseWhite ==
    /\ running /\ game.current_player = WHITE
    /\ Len(fen_log) < MaxCase
    /\ \E top \in {GameOver(game)} :
       /\ ~top.ret
       /\ \E text \in CaseTokens :
          \E promotion_choice \in
               ChoicesFor(top.game, char_to_position(SubSeq(text, 1, 2)),
                          char_to_position(SubSeq(text, 3, 4))) :
          \E h \in {handle_move_execution(top.game, fen_log, text, promotion_choice)} :
                /\ game' = h.game
                /\ fen_log' = h.fen_log
                /\ last' = IF Refused(h) THEN last ELSE Outcome("white_move", h, 0)
                /\ UNCHANGED <<running, calls, clock>>

CaseBlack ==
    /\ running /\ game.current_player = BLACK
    /\ Len(fen_log) < MaxCase
    /\ \E top \in {GameOver(game)} :
       /\ ~top.ret
       /\ \E reply \in CaseReplies :
          \E promotion_choice \in
               ChoicesFor(top.game, parse_move_string(reply.move_str).from,
                          parse_move_string(reply.move_str).to) :
          \E h \in {handle_black_turn(top.game, fen_log, reply, promotion_choice)} :
                /\ game' = h.game
                /\ fen_log' = h.fen_log
                /\ last' = IF Refused(h) THEN last ELSE Outcome("black_turn", h, 0)
                /\ UNCHANGED <<running, calls, clock>>

CaseNext == CaseSetup \/ CaseWhite \/ CaseBlack \/ EndGame

CaseSpec == Init /\ [][CaseNext]_vars

(***************************************************************************)
(* A game from the standard start in which both sides take their moves     *)
(* in any order from the scholar's-mate line.                              *)
(***************************************************************************)
MaxMate == 8

\* e2-e4, e7-e5, d1-h5, b8-c6, f1-c4, g8-f6, h5xf7 as typed at the prompt
\* and as answered by the engine.
ScholarLine ==
    <<<<"e", "2", "e", "4">>,
      <<"e", "7", "e", "5">>,
      <<"d", "1", "h", "5">>,
      <<"b", "8", "c", "6">>,
      <<"f", "1", "c", "4">>,
      <<"g", "8", "f", "6">>,
      <<"h", "5", "f", "7">>>>

MateTokens ==
    {ScholarLine[i] : i \in 1..Len(ScholarLine)}

MateReplies == {[got |-> TRUE, move_str |-> t] : t \in MateTokens}

MateWhite ==
    /\ running /\ game.current_player = WHITE
    /\ Len(fen_log) < MaxMate
    /\ \E top \in {GameOver(game)} :
       /\ ~top.ret
       /\ \E text \in MateTokens :
          \E h \in {handle_move_execution(top.game, fen_log, text, QUEEN)} :
                /\ game' = h.game
                /\ fen_log' = h.fen_log
                /\ last' = IF Refused(h) THEN last ELSE Outcome("white_move", h, 0)
                /\ UNCHANGED <<running, calls, clock>>

MateBlack ==
    /\ running /\ game.current_player = BLACK
    /\ Len(fen_log) < MaxMate
    /\ \E top \in {GameOver(game)} :
       /\ ~top.ret
       /\ \E reply \in MateReplies :
          \E h \in {handle_black_turn(top.game, fen_log, reply, QUEEN)} :
                /\ game' = h.game
                /\ fen_log' = h.fen_log
                /\ last' = IF Refused(h) THEN last ELSE Outcome("black_turn", h, 0)
                /\ UNCHANGED <<running, calls, clock>>

MateNext == MateWhite \/ MateBlack \/ EndGame

MateSpec == Init /\ [][MateNext]_vars

(***************************************************************************)
(* A game played on the clock: White has a minute and ten seconds a move,  *)
(* Black a minute, and each prompt or engine turn takes some seconds.      *)
(***************************************************************************)
MaxClock == 5

ClockControl == TimeControl(1, 10, 1, 0)

\* The seconds a prompt or an engine turn may take.
ClockSeconds == {25, 70}

\* f2-f3, e7-e5, g2-g4, d8-h4.
ClockTokens ==
    {<<"f", "2", "f", "3">>,
     <<"e", "7", "e", "5">>,
     <<"g", "2", "g", "4">>,
     <<"d", "8", "h", "4">>}

ClockReplies ==
    {[got |-> FALSE, move_str |-> <<>>]}
    \cup {[got |-> TRUE, move_str |-> t] : t \in ClockTokens}

ClockInit ==
    /\ game = init_board
    /\ fen_log = save_fen_log(<<>>, init_board)
    /\ running = TRUE
    /\ last = [op |-> "init", ret |-> TRUE, from |-> NoPos, to |-> NoPos,
               count |-> 0]
    /\ calls = <<>>
    /\ clock = init_game_timer(ClockControl)

\* The loop finds a clock run out and announces the opponent of the side to
\* move as the winner.
TimeForfeit ==
    /\ running
    /\ check_time_forfeit(clock)
    /\ clock' = [clock EXCEPT !.forfeit = TRUE,
                              !.winner = Opponent(game.current_player)]
    /\ running' = FALSE
    /\ last' = [op |-> "forfeit", ret |-> TRUE, from |-> NoPos, to |-> NoPos,
                count |-> 0]
    /\ UNCHANGED <<game, fen_log, calls>>

\* White answers the prompt with RETURN alone after some seconds.
ClockIdle ==
    /\ running /\ game.current_player = WHITE
    /\ ~check_time_forfeit(clock)
    /\ \E top \in {GameOver(game)} :
       /\ ~top.ret
       /\ game' = top.game
       /\ \E seconds \in ClockSeconds :
             clock' = TimePasses(start_move_timer(clock, WHITE), seconds)
       /\ UNCHANGED <<fen_log, running, last, calls>>

ClockWhite ==
    /\ running /\ game.current_player = WHITE
    /\ Len(fen_log) < MaxClock
    /\ ~check_time_forfeit(clock)
    /\ \E top \in {GameOver(game)} :
       /\ ~top.ret
       /\ \E text \in ClockTokens : \E seconds \in ClockSeconds :
          \E h \in {handle_move_execution(top.game, fen_log, text, QUEEN)} :
          \E waited \in {TimePasses(start_move_timer(clock, WHITE), seconds)} :
                /\ game' = h.game
                /\ fen_log' = h.fen_log
                /\ clock' = IF h.ret THEN stop_move_timer(waited) ELSE waited
                /\ last' = IF Refused(h) THEN last ELSE Outcome("white_move", h, 0)
                /\ UNCHANGED <<running, calls>>

ClockBlack ==
    /\ running /\ game.current_player = BLACK
    /\ Len(fen_log) < MaxClock
    /\ ~check_time_forfeit(clock)
    /\ \E top \in {GameOver(game)} :
       /\ ~top.ret
       /\ \E reply \in ClockReplies : \E seconds \in ClockSeconds :
          \E h \in {handle_black_turn(top.game, fen_log, reply, QUEEN)} :
          \E waited \in {TimePasses(start_move_timer(clock, BLACK), seconds)} :
                /\ game' = h.game
                /\ fen_log' = h.fen_log
                /\ clock' = IF h.ret THEN stop_move_timer(waited) ELSE waited
                /\ last' = IF Refused(h) THEN last ELSE Outcome("black_turn", h, 0)
                /\ UNCHANGED <<running, calls>>

ClockNext == TimeForfeit \/ ClockIdle \/ ClockWhite \/ ClockBlack \/ EndGame

ClockSpec == ClockInit /\ [][ClockNext]_vars

(***************************************************************************)
(* Attack queries followed step by step (chess.c is_square_attacked,       *)
(* get_king_moves): each frame of calls stands for one activation.         *)
(*   fn      the function                                                  *)
(*   pos     is_square_attacked: the square asked about;                   *)
(*           get_king_moves: the king's square                             *)
(*   color   is_square_attacked: by_color; get_king_moves: the king's color*)
(*   cursor  is_square_attacked: the number of squares the two loops have  *)
(*           visited; get_king_moves: the number of castling attack tests  *)
(*           that are behind it                                            *)
(***************************************************************************)
\* MaxDepth caps the number of frames on the call stack.
MaxDepth == 4

Frame(fn, pos, color, cursor) ==
    [fn |-> fn, pos |-> pos, color |-> color, cursor |-> cursor]

\* The square the loops of is_square_attacked visit after cursor squares.
ScanSquare(cursor) == Pos(cursor \div BOARD_SIZE, cursor % BOARD_SIZE)

\* The generator is_square_attacked as it would be if it sent every piece,
\* the king too, through get_possible_moves.
ScanThroughGetPossibleMoves(piece) == "get_possible_moves"

\* The generator is_square_attacked calls for a piece (chess.c 455-459).
ScanGenerator(piece) ==
    IF piece.type = KING THEN "get_king_moves_no_castling"
    ELSE "get_possible_moves"

\* The squares get_king_moves asks is_square_attacked about, in the order
\* of the code: two for the king's wing, then two for the queen's wing.
CastleQueries(color) ==
    LET krow == IF color = WHITE THEN 7 ELSE 0
    IN <<Pos(krow, 5), Pos(krow, 6), Pos(krow, 2), Pos(krow, 3)>>

\* The conditions get_king_moves tests before the attack tests of the wing
\* the query belongs to.
CastleQueryReached(g, from, color, query) ==
    LET krow == IF color = WHITE THEN 7 ELSE 0
        king_moved == IF color = WHITE THEN g.white_king_moved
                      ELSE g.black_king_moved
        rook_moved ==
            IF query < 2
            THEN (IF color = WHITE THEN g.white_rook_h_moved
                  ELSE g.black_rook_h_moved)
            ELSE (IF color = WHITE THEN g.white_rook_a_moved
                  ELSE g.black_rook_a_moved)
        between == IF query < 2 THEN {5, 6} ELSE {1, 2, 3}
    IN /\ ~g.in_check[color]
       /\ ~king_moved /\ ~rook_moved
       /\ from.row = krow /\ from.col = 4
       /\ \A c \in between : ~is_piece_at(g, krow, c)

\* The query after the wing of the given query.
NextWing(query) == IF query < 2 THEN 2 ELSE 4

\* The stack after the innermost frame has returned ret to its caller.
Returned(stack, ret) ==
    LET rest == SubSeq(stack, 1, Len(stack) - 1)
        callee == stack[Len(stack)]
        Resume(caller) ==
            IF caller.fn = "get_king_moves"
            THEN \* && stops at the first attacked square of a wing
                 [caller EXCEPT !.cursor =
                     IF ret THEN NextWing(@) ELSE @ + 1]
            ELSE \* the scan has the king's moves and goes on with them
                 [caller EXCEPT !.cursor =
                     IF caller.pos \in get_king_moves(
                            [game EXCEPT !.current_player = caller.color],
                            callee.pos)
                     THEN BOARD_SIZE * BOARD_SIZE + 1 ELSE @ + 1]
    IN IF rest = <<>> THEN rest
       ELSE [rest EXCEPT ![Len(rest)] = Resume(@)]

\* The positions and squares the queries are followed on.
ScanPositions ==
    {init_board, setup_board_from_fen(init_board, FenCastleBoth).game}

QueryTargets == {sq \in Squares : sq.row \in {0, 2, 5, 7}}

ScanInit ==
    /\ game \in ScanPositions
    /\ fen_log = save_fen_log(<<>>, game)
    /\ running = TRUE
    /\ last = [op |-> "init", ret |-> TRUE, from |-> NoPos, to |-> NoPos,
               count |-> 0]
    /\ calls = <<>>
    /\ clock = init_game_timer(NoTimeControl)

\* is_square_attacked is called for a square and a color.
AttackQuery ==
    /\ calls = <<>>
    /\ \E pos \in QueryTargets : \E by_color \in {WHITE, BLACK} :
          calls' = <<Frame("is_square_attacked", pos, by_color, 0)>>
    /\ UNCHANGED <<game, fen_log, running, last, clock>>

\* is_in_check is called for a color.
CheckQuery ==
    /\ calls = <<>>
    /\ \E color \in {WHITE, BLACK} :
          calls' = <<Frame("is_square_attacked", KingPosOf(game, color),
                           Opponent(color), 0)>>
    /\ UNCHANGED <<game, fen_log, running, last, clock>>

\* get_possible_moves is called for a king and goes to get_king_moves.
KingMovesCall ==
    /\ calls = <<>>
    /\ \E from \in Squares :
          /\ get_piece_at(game, from.row, from.col).type = KING
          /\ calls' = <<Frame("get_king_moves", from,
                              get_piece_at(game, from.row, from.col).color, 0)>>
    /\ UNCHANGED <<game, fen_log, running, last, clock>>

\* One pass through the body of the loops of is_square_attacked.
ScanVisit ==
    /\ calls # <<>>
    /\ \E top \in {calls[Len(calls)]} :
          /\ top.fn = "is_square_attacked"
          /\ top.cursor < BOARD_SIZE * BOARD_SIZE
          /\ \E sq \in {ScanSquare(top.cursor)} :
             \E piece \in {get_piece_at(game, sq.row, sq.col)} :
                IF ~is_piece_at(game, sq.row, sq.col) \/ piece.color # top.color
                THEN calls' = [calls EXCEPT ![Len(calls)].cursor = @ + 1]
                ELSE IF piece.type = KING
                        /\ ScanGenerator(piece) = "get_possible_moves"
                THEN /\ Len(calls) < MaxDepth
                     /\ calls' = Append(calls,
                            Frame("get_king_moves", sq, piece.color, 0))
                ELSE IF top.pos \in AttackMoves(
                            [game EXCEPT !.current_player = top.color], sq)
                THEN calls' = Returned(calls, TRUE)
                ELSE calls' = [calls EXCEPT ![Len(calls)].cursor = @ + 1]
    /\ UNCHANGED <<game, fen_log, running, last, clock>>

\* is_square_attacked leaves its loops: false after the last square, true
\* when the moves a king's generator came back with hold the square.
ScanReturn ==
    /\ calls # <<>>
    /\ calls[Len(calls)].fn = "is_square_attacked"
    /\ calls[Len(calls)].cursor >= BOARD_SIZE * BOARD_SIZE
    /\ calls' = Returned(calls,
                    calls[Len(calls)].cursor > BOARD_SIZE * BOARD_SIZE)
    /\ UNCHANGED <<game, fen_log, running, last, clock>>

\* get_king_moves reaches the next attack test of its castling conditions,
\* or finds the wing ruled out before it.
CastleTest ==
    /\ calls # <<>>
    /\ \E top \in {calls[Len(calls)]} :
          /\ top.fn = "get_king_moves"
          /\ top.cursor < 4
          /\ IF CastleQueryReached(game, top.pos, top.color, top.cursor)
             THEN /\ Len(calls) < MaxDepth
                  /\ calls' = Append(calls,
                         Frame("is_square_attacked",
                               CastleQueries(top.color)[top.cursor + 1],
                               Opponent(top.color), 0))
             ELSE calls' = [calls EXCEPT ![Len(calls)].cursor = NextWing(@)]
    /\ UNCHANGED <<game, fen_log, running, last, clock>>

\* get_king_moves returns its moves.
KingMovesReturn ==
    /\ calls # <<>>
    /\ calls[Len(calls)].fn = "get_king_moves"
    /\ calls[Len(calls)].cursor >= 4
    /\ calls' = Returned(calls, TRUE)
    /\ UNCHANGED <<game, fen_log, running, last, clock>>

ScanNext ==
    \/ AttackQuery \/ CheckQuery \/ KingMovesCall
    \/ ScanVisit \/ ScanReturn \/ CastleTest \/ KingMovesReturn

\* The program runs on: a step that can be taken is taken.
ScanSpec == ScanInit /\ [][ScanNext]_vars /\ WF_vars(ScanNext)

(***************************************************************************)
(* The notation converter: convert_fen_to_pgn_string (chess.c, and the     *)
(* same text in pgn_utils.c) up to the moves array it fills, from which    *)
(* the notation is then printed.  The lines of the file are the entries of *)
(* the log.                                                                *)
(***************************************************************************)
\* The board read from a line: the loop runs to the first space or the
\* terminator, a slash moves it one row down and back to column 0, a digit
\* as many columns right as it says, and any other character is written as
\* a piece on the square the loop is at.  The array starts zeroed.  No line
\* the serializer writes takes the loop off the board.
PgnBoard(line) ==
    LET Fill(written) ==
            [row \in Rows |-> [col \in Rows |->
                IF \E w \in written : w.row = row /\ w.col = col
                THEN (CHOOSE w \in written :
                          /\ w.row = row /\ w.col = col
                          /\ \A v \in written :
                                (v.row = row /\ v.col = col)
                                    => v.ptr <= w.ptr).piece
                ELSE NoPiece]]
        Loop(end) ==
            Fill({w \in
                    {[ptr |-> i, row |-> LoopRow(line, i),
                      col |-> LoopCol(line, i),
                      piece |-> Piece(char_to_piece_type(tolower(line[i])),
                                      IF isupper(line[i]) THEN WHITE
                                      ELSE BLACK)] :
                     i \in {j \in 1..(end - 1) :
                               line[j] # "/" /\ ~isdigit(line[j])}} :
                    w.row < BOARD_SIZE /\ w.col < BOARD_SIZE})
    IN Loop(CHOOSE i \in 1..(Len(line) + 1) :
                /\ At(line, i) \in {NUL, " "}
                /\ \A j \in 1..(i - 1) : line[j] # " ")

\* The first square of a set in the order the loops visit the board.
FirstSquare(squares) ==
    CHOOSE sq \in squares : \A other \in squares :
        ScanOrder(sq) <= ScanOrder(other)

\* The squares whose piece of prev_board is no longer there, and the
\* squares whose piece of curr_board was not there.
Disappeared(prev_board, curr_board) ==
    {sq \in Squares :
        /\ prev_board[sq.row][sq.col].type # EMPTY
        /\ \/ curr_board[sq.row][sq.col].type # prev_board[sq.row][sq.col].type
           \/ curr_board[sq.row][sq.col].color # prev_board[sq.row][sq.col].color}

Appeared(prev_board, curr_board) ==
    {sq \in Squares :
        /\ curr_board[sq.row][sq.col].type # EMPTY
        /\ \/ prev_board[sq.row][sq.col].type # curr_board[sq.row][sq.col].type
           \/ prev_board[sq.row][sq.col].color # curr_board[sq.row][sq.col].color}

\* The squares two files from a vanished king, on its row, where a king of
\* its color stands that was not there.
CastledTo(prev_board, curr_board, sq) ==
    {t \in Squares :
        /\ curr_board[t.row][t.col].type = KING
        /\ curr_board[t.row][t.col].color = prev_board[sq.row][sq.col].color
        /\ prev_board[t.row][t.col].type # KING
        /\ t.row = sq.row /\ Abs(t.col - sq.col) = 2}

CastledFrom(prev_board, curr_board) ==
    {sq \in Squares :
        /\ prev_board[sq.row][sq.col].type = KING
        /\ curr_board[sq.row][sq.col].type # KING
        /\ CastledTo(prev_board, curr_board, sq) # {}}

\* The squares where a piece appeared of the type and color of the one that
\* disappeared from d.
AppearedAs(prev_board, curr_board, d) ==
    {a \in Appeared(prev_board, curr_board) :
        /\ prev_board[d.row][d.col].type = curr_board[a.row][a.col].type
        /\ prev_board[d.row][d.col].color = curr_board[a.row][a.col].color}

PgnMove(from, to, piece, captured_piece, is_castle, is_en_passant, promotion_piece) ==
    [from |-> from, to |-> to,
     piece_type |-> piece.type, piece_color |-> piece.color,
     captured_piece |-> captured_piece, is_castle |-> is_castle,
     is_en_passant |-> is_en_passant, promotion_piece |-> promotion_piece]

\* The moves one pair of consecutive boards adds to the array: a castling
\* if a king is found two files from where it vanished, otherwise the first
\* vanished piece matched with the first piece of its type and color that
\* appeared, otherwise none.
MovesBetween(prev_board, curr_board) ==
    LET Castle(from) ==
            <<PgnMove(from, FirstSquare(CastledTo(prev_board, curr_board, from)),
                      Piece(KING, prev_board[from.row][from.col].color),
                      EMPTY, TRUE, FALSE, EMPTY)>>
        Normal(d) ==
            LET Matched(a) ==
                    <<PgnMove(d, a, prev_board[d.row][d.col],
                              prev_board[a.row][a.col].type, FALSE,
                              /\ prev_board[d.row][d.col].type = PAWN
                              /\ d.col # a.col
                              /\ prev_board[a.row][a.col].type = EMPTY,
                              IF /\ prev_board[d.row][d.col].type = PAWN
                                 /\ \/ prev_board[d.row][d.col].color = WHITE
                                       /\ a.row = 0
                                    \/ prev_board[d.row][d.col].color = BLACK
                                       /\ a.row = 7
                                 /\ curr_board[a.row][a.col].type # PAWN
                              THEN curr_board[a.row][a.col].type
                              ELSE EMPTY)>>
            IN Matched(FirstSquare(AppearedAs(prev_board, curr_board, d)))
        Pairs(from_squares) ==
            IF from_squares = {} THEN <<>>
            ELSE Normal(FirstSquare(from_squares))
    IN IF CastledFrom(prev_board, curr_board) # {}
       THEN Castle(FirstSquare(CastledFrom(prev_board, curr_board)))
       ELSE Pairs({d \in Disappeared(prev_board, curr_board) :
                      AppearedAs(prev_board, curr_board, d) # {}})

\* The moves array after the first n lines have been read.
RECURSIVE MovesRead(_, _)
MovesRead(lines, n) ==
    IF n < 2 THEN <<>>
    ELSE MovesRead(lines, n - 1)
            \o MovesBetween(PgnBoard(lines[n - 1]), PgnBoard(lines[n]))

convert_fen_to_pgn_string(lines) == MovesRead(lines, Len(lines))

(***************************************************************************)
(* Notions the properties below are stated with.                           *)
(***************************************************************************)
\* The squares that hold a king of the color.
KingSquares(g, color) ==
    {sq \in Squares : get_piece_at(g, sq.row, sq.col) = Piece(KING, color)}

\* No king of the color stands on a square the opponent attacks.
KingSafe(g, color) ==
    \A sq \in KingSquares(g, color) :
        ~is_square_attacked(g, sq, Opponent(color))

\* The position after the piece on from has gone to to, as the rules of
\* chess have it: a pawn that goes diagonally to the empty en-passant
\* target takes the pawn it passed off the board.
ChessMove(g, from, to) ==
    LET moving_piece == get_piece_at(g, from.row, from.col)
        takes_en_passant ==
            /\ moving_piece.type = PAWN /\ g.en_passant_available
            /\ to = g.en_passant_target /\ from.col # to.col
            /\ ~is_piece_at(g, to.row, to.col)
        moved == [g EXCEPT
                    !.board = [row \in Rows |-> [col \in Rows |->
                        IF row = to.row /\ col = to.col THEN moving_piece
                        ELSE IF row = from.row /\ col = from.col THEN NoPiece
                        ELSE IF takes_en_passant /\ row = from.row
                                /\ col = to.col THEN NoPiece
                        ELSE g.board[row][col]]]]
    IN moved

\* The square is attacked under the rules of chess: a pawn attacks the two
\* squares diagonally ahead of it, whatever stands on them, and no other;
\* every other piece attacks the squares it could move or capture to.
ChessAttacked(g, pos, by_color) ==
    \E sq \in Squares :
        /\ is_piece_at(g, sq.row, sq.col)
        /\ get_piece_at(g, sq.row, sq.col).color = by_color
        /\ IF get_piece_at(g, sq.row, sq.col).type = PAWN
           THEN /\ pos.row = sq.row + (IF by_color = WHITE THEN -1 ELSE 1)
                /\ Abs(pos.col - sq.col) = 1
           ELSE pos \in AttackMoves(g, sq)

\* The home row of a color and, per wing, the castling destination, the
\* squares between king and rook, and the squares the king passes over and
\* lands on.
HomeRow(color) == IF color = WHITE THEN 7 ELSE 0

Wings == {"a", "h"}

CastleDestination(color, wing) ==
    Pos(HomeRow(color), IF wing = "h" THEN 6 ELSE 2)

\* The castling right of a color on a wing: king and rook unmoved.
CastlingRight(g, color, wing) ==
    IF color = WHITE
    THEN ~g.white_king_moved
         /\ ~(IF wing = "h" THEN g.white_rook_h_moved ELSE g.white_rook_a_moved)
    ELSE ~g.black_king_moved
         /\ ~(IF wing = "h" THEN g.black_rook_h_moved ELSE g.black_rook_a_moved)

CastleAllowed(g, color, wing) ==
    /\ CastlingRight(g, color, wing)
    /\ \A col \in (IF wing = "h" THEN {5, 6} ELSE {1, 2, 3}) :
           ~is_piece_at(g, HomeRow(color), col)
    /\ \A col \in (IF wing = "h" THEN {4, 5, 6} ELSE {4, 3, 2}) :
           ~ChessAttacked(g, Pos(HomeRow(color), col), Opponent(color))

\* Each king-position field names the one square that holds that king.
KingsTracked(g) ==
    /\ KingSquares(g, WHITE) = {g.white_king_pos}
    /\ KingSquares(g, BLACK) = {g.black_king_pos}

\* Board, king squares, side to move, castling flags, en-passant state,
\* counters and captured lists agree.
SamePosition(a, b) ==
    /\ a.board = b.board
    /\ a.white_king_pos = b.white_king_pos
    /\ a.black_king_pos = b.black_king_pos
    /\ a.current_player = b.current_player
    /\ a.white_king_moved = b.white_king_moved
    /\ a.black_king_moved = b.black_king_moved
    /\ a.white_rook_a_moved = b.white_rook_a_moved
    /\ a.white_rook_h_moved = b.white_rook_h_moved
    /\ a.black_rook_a_moved = b.black_rook_a_moved
    /\ a.black_rook_h_moved = b.black_rook_h_moved
    /\ a.en_passant_available = b.en_passant_available
    /\ a.en_passant_target = b.en_passant_target
    /\ a.halfmove_clock = b.halfmove_clock
    /\ a.fullmove_number = b.fullmove_number
    /\ a.white_captured = b.white_captured
    /\ a.black_captured = b.black_captured

\* Decoding the serialization of g succeeds and gives back g's board, side
\* to move, castling rights, en-passant target and counters.
RoundTrips(g) ==
    LET Same(r) ==
            /\ r.ret
            /\ r.game.board = g.board
            /\ r.game.current_player = g.current_player
            /\ \A color \in {WHITE, BLACK} : \A wing \in Wings :
                   CastlingRight(r.game, color, wing)
                       = CastlingRight(g, color, wing)
            /\ r.game.en_passant_available = g.en_passant_available
            /\ (g.en_passant_available =>
                    r.game.en_passant_target = g.en_passant_target)
            /\ r.game.halfmove_clock = g.halfmove_clock
            /\ r.game.fullmove_number = g.fullmove_number
    IN Same(setup_board_from_fen(g, board_to_fen(g)))

\* The last command was a move of White or of the engine that was made.
MoveMade == last.op \in {"white_move", "black_turn"} /\ last.ret

\* The number of pieces on the board.
PieceCount(g) ==
    Cardinality({sq \in Squares : is_piece_at(g, sq.row, sq.col)})

\* The fullmove field of a FEN text: the number after its last space.
FullmoveField(fen) ==
    atoi(fen, 1 + CHOOSE i \in 1..Len(fen) :
                      /\ fen[i] = " "
                      /\ \A j \in (i + 1)..Len(fen) : fen[j] # " ")

\* The six castling flags, in the order king, a-rook, h-rook, White first.
CastlingFlags(g) ==
    <<g.white_king_moved, g.white_rook_a_moved, g.white_rook_h_moved,
      g.black_king_moved, g.black_rook_a_moved, g.black_rook_h_moved>>

\* The two lists hold the same pieces, each as often, in whatever order.
SamePieces(a, b) ==
    \A piece \in Range(a) \cup Range(b) :
        Cardinality({i \in 1..Len(a) : a[i] = piece})
            = Cardinality({i \in 1..Len(b) : b[i] = piece})

\* The piece kind a fifth character of a UCI move text stands for.
UciPromotionKind(c) ==
    CASE c = "q" -> QUEEN
      [] c = "r" -> ROOK
      [] c = "b" -> BISHOP
      [] c = "n" -> KNIGHT
      [] OTHER   -> EMPTY

\* The squares that hold a pawn.
PawnSquares(g) ==
    {sq \in Squares : get_piece_at(g, sq.row, sq.col).type = PAWN}

\* The row on which a pawn of the color promotes.
LastRank(color) == IF color = WHITE THEN 0 ELSE 7

\* What a successful make_promotion_move of the pawn on from to the square
\* to with the kind has to leave behind, r being what it returned.
Promoted(g, from, to, kind, r) ==
    LET moved == get_piece_at(g, from.row, from.col)
        taken == get_piece_at(g, to.row, to.col)
    IN /\ moved = Piece(PAWN, g.current_player)
       /\ to.row = LastRank(moved.color)
       /\ kind \in {QUEEN, ROOK, BISHOP, KNIGHT}
       /\ to \in get_pawn_moves(g, from)
       /\ KingSafe(ChessMove(g, from, to), moved.color)
       /\ get_piece_at(r.game, to.row, to.col) = Piece(kind, moved.color)
       /\ ~is_piece_at(r.game, from.row, from.col)
       /\ \A sq \in Squares \ {from, to} :
              get_piece_at(r.game, sq.row, sq.col) = get_piece_at(g, sq.row, sq.col)
       /\ r.game.white_captured =
              (IF taken.type # EMPTY /\ moved.color = WHITE
               THEN Append(g.white_captured, taken) ELSE g.white_captured)
       /\ r.game.black_captured =
              (IF taken.type # EMPTY /\ moved.color = BLACK
               THEN Append(g.black_captured, taken) ELSE g.black_captured)
       /\ r.game.halfmove_clock = 0
       /\ ~r.game.en_passant_available
       /\ r.game.en_passant_target = NoPos
       /\ r.game.current_player = Opponent(g.current_player)

\* The board field of a FEN text, up to its first space, holds the letter.
BoardFieldHas(fen, letter) ==
    \E i \in 1..Len(fen) :
        fen[i] = letter /\ \A j \in 1..i : fen[j] # " "

(***************************************************************************)
(* Properties.                                                             *)
(***************************************************************************)
\* C1: in every reachable position, every move that is_valid_move accepts
\* (en-passant captures and castling included) leads, once make_move or
\* make_promotion_move has made it, to a position in which the mover's own
\* king is not attacked by the opponent.
C1_AcceptedMoveLeavesKingSafe ==
    \A from \in Squares : \A to \in get_possible_moves(game, from) :
        is_valid_move(game, from, to).ret =>
            \A promotion_choice \in ChoicesFor(game, from, to) :
                LET Safe(r) == r.ret /\ KingSafe(r.game, game.current_player)
                IN Safe(make_move(game, from, to, promotion_choice))

\* C2: in every reachable position in which is_checkmate(color) holds, the
\* color has no move under the rules of chess, en-passant captures
\* included, after which its king is no longer attacked.
C2_CheckmateHasNoEscape ==
    \A color \in {WHITE, BLACK} :
        is_checkmate(game, color).ret =>
            ~\E from \in Squares :
                /\ is_piece_at(game, from.row, from.col)
                /\ get_piece_at(game, from.row, from.col).color = color
                /\ \E to \in get_possible_moves(
                                 [game EXCEPT !.current_player = color], from) :
                       KingSafe(ChessMove(game, from, to), color)

\* C3: for a king on its home square, get_king_moves offers the castling
\* destination of a wing if and only if king and rook of that wing have not
\* moved, the squares between them are empty, and the king's square, the
\* square it passes over and its destination are attacked by no opposing
\* piece, a pawn attacking the two squares diagonally ahead of it; in every
\* other case make_move rejects the castle.
C3_CastlingOfferedIffAllowed ==
    \A color \in {WHITE, BLACK} : \A wing \in Wings :
        get_piece_at(game, HomeRow(color), 4) = Piece(KING, color) =>
            /\ CastleDestination(color, wing)
                   \in get_king_moves(game, Pos(HomeRow(color), 4))
               <=> CastleAllowed(game, color, wing)
            /\ ~CastleAllowed(game, color, wing) =>
                   ~make_move(game, Pos(HomeRow(color), 4),
                              CastleDestination(color, wing), QUEEN).ret

\* C4: a successful setup_board_from_fen leaves white_king_pos and
\* black_king_pos each equal to the one and only square holding that
\* color's king, and every accepted move made where that holds keeps it (it
\* holds of init_board).
C4_KingPositionsTracked ==
    /\ KingsTracked(init_board)
    /\ [][/\ (last'.op = "setup" /\ last'.ret) => KingsTracked(game')
          /\ (MoveMade' /\ KingsTracked(game)) => KingsTracked(game')]_vars

\* C5: whenever setup_board_from_fen returns false, the game's board, king
\* squares, side to move, castling flags, en-passant state, counters and
\* captured lists are what they were before the call.
C5_FailedSetupLeavesGame ==
    \A fen \in FenInputs :
        LET Untouched(r) == ~r.ret => SamePosition(r.game, game)
        IN Untouched(setup_board_from_fen(game, fen))

\* C6: for the starting position and every position that play has led to,
\* setup_board_from_fen of its board_to_fen succeeds and yields the same
\* board, side to move, castling rights, en-passant target and counters.
C6_FenRoundTrip ==
    (last.op = "init" \/ MoveMade) => RoundTrips(game)

C8_OverlongUndoClamped ==
    [][(last'.op = "undo" /\ last'.count > count_available_undos(fen_log)) =>
          /\ fen_log' = SubSeq(fen_log, 1, 1)
          /\ board_to_fen(game') = fen_log[1]]_vars

\* C8: an undo request for more move pairs than the history holds is
\* refused: the log keeps all its entries and the live position is what the
\* command found, the game as the tests at the top of the loop left it.
C8_OverlongUndoRefused ==
    [][(last'.op = "undo" /\ last'.count > count_available_undos(fen_log)) =>
          /\ ~last'.ret
          /\ fen_log' = fen_log
          /\ game' = GameOver(game).game]_vars

\* More pairs than the two the history holds have been asked for.
C8_AskedForTooMany ==
    /\ last.op = "undo" /\ ~last.ret
    /\ count_available_undos(fen_log) = 2
    /\ last.count > count_available_undos(fen_log)

\* C9: at the top of every iteration of the game loop the FEN log is not
\* empty and its last entry is board_to_fen of the live position, side to
\* move included.
C9_LogEndsWithLivePosition ==
    running =>
        /\ Len(fen_log) >= 1
        /\ fen_log[Len(fen_log)] = board_to_fen(game)

\* C10: a turn of the engine that makes no move (no reply, squares off the
\* board, a move execute_move rejects) leaves board, side to move, castling
\* flags, en-passant state and counters as they were: it is still Black to
\* move.
C10_FailedEngineTurnIsNoOp ==
    [][(last'.op = "black_turn" /\ ~last'.ret) =>
          /\ SamePosition(game', game)
          /\ game'.current_player = BLACK]_vars

\* C11: after every accepted move halfmove_clock is 0 if a pawn moved
\* (promotion included) or a piece left the board (en passant included), and
\* otherwise one more than before the move.
C11_HalfmoveClockRule ==
    [][MoveMade' =>
          game'.halfmove_clock =
              IF get_piece_at(game, last'.from.row, last'.from.col).type = PAWN
                 \/ PieceCount(game') < PieceCount(game)
              THEN 0 ELSE game.halfmove_clock + 1]_vars

\* Two moves that were neither pawn moves nor captures have followed two
\* pawn moves from the starting position: the clock stands at 2.
C11_ClockCountedAndReset ==
    /\ MoveMade /\ game.halfmove_clock = 2
    /\ Len(fen_log) = 5

\* C12: every accepted move of Black adds 1 to fullmove_number and every
\* accepted move of White adds 0, and an accepted half-move leaves the
\* number one above what it was two accepted half-moves earlier, the FEN log
\* holding one entry for each.
C12_FullmovePerTwoHalfMoves ==
    [][MoveMade' =>
          /\ game'.fullmove_number =
                 game.fullmove_number
                 + (IF last'.op = "black_turn" THEN 1 ELSE 0)
          /\ Len(fen_log') >= 3 =>
                 FullmoveField(fen_log'[Len(fen_log')]) =
                     FullmoveField(fen_log'[Len(fen_log') - 2]) + 1]_vars

\* C13: after every accepted move en_passant_available is true exactly when
\* a pawn has advanced two rows, and en_passant_target is then the square
\* it passed over; a target that stood before the move is no longer the
\* target after it, used or not.
C13_EnPassantForOneReply ==
    [][MoveMade' =>
          LET Rule(from, to, moved) ==
                  /\ game'.en_passant_available <=>
                         (moved.type = PAWN /\ Abs(to.row - from.row) = 2)
                  /\ game'.en_passant_available =>
                         /\ game'.en_passant_target.col = from.col
                         /\ game'.en_passant_target.row =
                                from.row + (IF moved.color = WHITE THEN -1 ELSE 1)
                         /\ ~is_piece_at(game', game'.en_passant_target.row,
                                         game'.en_passant_target.col)
                  /\ (game.en_passant_available /\ game'.en_passant_available)
                         => game'.en_passant_target # game.en_passant_target
          IN Rule(last'.from, last'.to,
                  get_piece_at(game, last'.from.row, last'.from.col))]_vars

\* Black has answered e2-e4 with d7-d5: the target is d6 and no longer e3.
C13_DoubleStepAnswered ==
    /\ MoveMade /\ last.from = Pos(1, 3) /\ last.to = Pos(3, 3)
    /\ game.en_passant_available /\ game.en_passant_target = Pos(2, 3)
    /\ Len(fen_log) = 3

\* C14: an accepted move leaves true every castling flag that was true
\* before it, and get_king_moves offers no castle on a wing whose right was
\* lost before the move.
C14_CastlingFlagsOnlyRise ==
    [][MoveMade' =>
          /\ \A i \in 1..6 : CastlingFlags(game)[i] => CastlingFlags(game')[i]
          /\ \A color \in {WHITE, BLACK} : \A wing \in Wings :
                 ~CastlingRight(game, color, wing) =>
                     \A from \in KingSquares(game', color) :
                         (from.col = 4 /\ from.row = HomeRow(color)) =>
                             CastleDestination(color, wing)
                                 \notin get_king_moves(game', from)]_vars

\* Both White rooks have left their corners one after the other, the king
\* still on its home square.
C14_BothRooksGone ==
    /\ MoveMade /\ last.from = Pos(7, 7)
    /\ game.white_rook_a_moved /\ game.white_rook_h_moved
    /\ ~game.white_king_moved
    /\ get_piece_at(game, 7, 4) = Piece(KING, WHITE)

\* C15: in the starting position, after a successful setup and after every
\* accepted move, each square get_possible_moves returns for a piece of the
\* side to move is on the board and holds no piece of that side.
C15_MovesOnBoardNotOnOwnPiece ==
    (last.op = "init" \/ (last.op = "setup" /\ last.ret) \/ MoveMade) =>
        \A from \in Squares :
            (/\ is_piece_at(game, from.row, from.col)
             /\ get_piece_at(game, from.row, from.col).color
                    = game.current_player) =>
                \A to \in get_possible_moves(game, from) :
                    /\ is_valid_position(to.row, to.col)
                    /\ ~(/\ is_piece_at(game, to.row, to.col)
                          /\ get_piece_at(game, to.row, to.col).color
                                 = game.current_player)

\* C16: after every accepted move of a game played from the starting
\* position, promotions included, the captured lists that
\* calculate_captured_pieces derives from the board hold, for each side,
\* the same pieces as the lists the moves have recorded.
C16_DerivedCapturesMatchRecorded ==
    MoveMade =>
        /\ SamePieces(calculate_captured_pieces(game).white_captured,
                      game.white_captured)
        /\ SamePieces(calculate_captured_pieces(game).black_captured,
                      game.black_captured)

\* C17: of every move text of four or five characters the engine may give
\* on its turn, parse_move_string yields the two squares the text names;
\* for four characters is_promotion is false and promotion_piece EMPTY; for
\* a fifth character q, r, b or n is_promotion is true and promotion_piece
\* QUEEN, ROOK, BISHOP or KNIGHT; for any other fifth character
\* is_promotion is false and promotion_piece EMPTY.
C17_ParseMoveStringReadsPromotion ==
    (running /\ game.current_player = BLACK) =>
        \A reply \in EngineReplies :
            (reply.got /\ Len(reply.move_str) \in {4, 5}) =>
                LET Parsed(text, move) ==
                        /\ char_to_position(SubSeq(text, 1, 2)) # NoPos =>
                               move.from = char_to_position(SubSeq(text, 1, 2))
                        /\ char_to_position(SubSeq(text, 3, 4)) # NoPos =>
                               move.to = char_to_position(SubSeq(text, 3, 4))
                        /\ move.promotion_piece =
                               (IF Len(text) = 5 THEN UciPromotionKind(text[5])
                                ELSE EMPTY)
                        /\ move.is_promotion <=>
                               (Len(text) = 5
                                /\ UciPromotionKind(text[5]) # EMPTY)
                IN Parsed(reply.move_str, parse_move_string(reply.move_str))

\* C18: in every reachable position, make_promotion_move succeeds only for
\* a legal move of a pawn of the side to move onto its last rank with a
\* kind among QUEEN, ROOK, BISHOP, KNIGHT; it then leaves a piece of that
\* kind and the mover's color on the destination, the origin empty, a piece
\* taken on the destination appended to the capturing side's list,
\* halfmove_clock 0, no en-passant target, and the other side to move; with
\* PAWN, KING or EMPTY as kind it returns false and changes nothing; from a
\* square that holds no pawn it fails for a good kind and a bad one alike.
C18_PromotionMoveContract ==
    /\ \A from \in PawnSquares(game) : \A to \in Squares :
       \A kind \in EMPTY..KING :
           LET Contract(r) ==
                   /\ r.ret => Promoted(game, from, to, kind, r)
                   /\ kind \in {PAWN, KING, EMPTY} =>
                          (~r.ret /\ r.game = game)
           IN Contract(make_promotion_move(game, from, to, kind))
    /\ \A from \in Squares \ PawnSquares(game) : \A to \in Squares :
       \A kind \in {QUEEN, PAWN} :
           ~make_promotion_move(game, from, to, kind).ret

\* White has promoted on a8 to a knight, and the Black pawn on h2 may now
\* promote by taking the knight on g1.
C18_PromotedAndMayTake ==
    /\ MoveMade /\ last.from = Pos(1, 0) /\ last.to = Pos(0, 0)
    /\ get_piece_at(game, 0, 0) = Piece(KNIGHT, WHITE)
    /\ make_promotion_move(game, Pos(6, 7), Pos(7, 6), ROOK).ret

\* C19: for every FEN text the user may type and for the serialization of
\* the live position, setup_board_from_fen returns
\* false if the board field has no K or has no k, and when it returns true
\* white_king_pos and black_king_pos are squares of the board on which a
\* White king and a Black king stand.
C19_SetupNeedsBothKings ==
    \A fen \in FenInputs \cup {board_to_fen(game)} :
        LET Answer(r) ==
                /\ (~BoardFieldHas(fen, "K") \/ ~BoardFieldHas(fen, "k"))
                       => ~r.ret
                /\ r.ret =>
                       /\ r.game.white_king_pos \in KingSquares(r.game, WHITE)
                       /\ r.game.black_king_pos \in KingSquares(r.game, BLACK)
        IN Answer(setup_board_from_fen(game, fen))

\* A position without a Black king has been typed and turned down.
C19_KinglessTurnedDown ==
    /\ last.op = "setup" /\ ~last.ret
    /\ KingSquares(game, BLACK) = {}
    /\ ~setup_board_from_fen(game, FenNoBlackKing).ret

\* C20: at the top of every iteration of the game loop, and so after every
\* accepted move and every successful setup and whenever get_king_moves is
\* about to be asked, in_check[WHITE] and in_check[BLACK] are what
\* is_in_check computes on the live position.
C20_CheckFlagsFresh ==
    running =>
        \A color \in {WHITE, BLACK} :
            game.in_check[color] = is_in_check(game, color)

\* C21: is_square_attacked and is_in_check terminate for every position,
\* positions in which both sides still hold their castling rights
\* included: every query that has been started comes to its end, and no
\* activation of get_king_moves is ever entered from within the attack
\* scan.
C21_AttackQueriesTerminate ==
    /\ [](\A i \in 1..Len(calls) :
             calls[i].fn = "get_king_moves" => i = 1)
    /\ ((calls # <<>>) ~> (calls = <<>>))

\* Both sides hold all their castling rights, get_king_moves is testing a
\* castling square, and the attack scan it started has gone past the
\* opposing king.
C21_ScanPassedKingWithRights ==
    /\ ~game.white_king_moved /\ ~game.white_rook_a_moved
    /\ ~game.white_rook_h_moved /\ ~game.black_king_moved
    /\ ~game.black_rook_a_moved /\ ~game.black_rook_h_moved
    /\ Len(calls) = 2
    /\ calls[1].fn = "get_king_moves"
    /\ calls[2].fn = "is_square_attacked"
    /\ calls[2].cursor > ScanOrder(KingPosOf(game, calls[2].color))
    /\ get_piece_at(game, KingPosOf(game, calls[2].color).row,
                    KingPosOf(game, calls[2].color).col)
          = Piece(KING, calls[2].color)

\* C22: an accepted move of a pawn that goes diagonally onto the empty
\* en-passant target, behind which the opposing pawn stands, puts the pawn
\* on the target, empties the square one rank behind the target, appends
\* that opposing pawn to the capturing side's captured list and to no other,
\* leaves en_passant_available false, empties the origin and changes no
\* other square.
C22_EnPassantCaptureApplied ==
    [][MoveMade' =>
          LET Rule(from, to, mover, behind) ==
                  (/\ mover.type = PAWN /\ from.col # to.col
                   /\ game.en_passant_available
                   /\ to = game.en_passant_target
                   /\ ~is_piece_at(game, to.row, to.col)
                   /\ get_piece_at(game, behind.row, behind.col)
                         = Piece(PAWN, Opponent(mover.color)))
                  => /\ get_piece_at(game', to.row, to.col) = mover
                     /\ ~is_piece_at(game', behind.row, behind.col)
                     /\ ~is_piece_at(game', from.row, from.col)
                     /\ \A sq \in Squares \ {from, to, behind} :
                            get_piece_at(game', sq.row, sq.col)
                                = get_piece_at(game, sq.row, sq.col)
                     /\ IF mover.color = WHITE
                        THEN /\ game'.white_captured =
                                    Append(game.white_captured,
                                           Piece(PAWN, BLACK))
                             /\ game'.black_captured = game.black_captured
                        ELSE /\ game'.black_captured =
                                    Append(game.black_captured,
                                           Piece(PAWN, WHITE))
                             /\ game'.white_captured = game.white_captured
                     /\ ~game'.en_passant_available
          IN Rule(last'.from, last'.to,
                  get_piece_at(game, last'.from.row, last'.from.col),
                  Pos(last'.to.row + (IF get_piece_at(game, last'.from.row,
                                            last'.from.col).color = WHITE
                                      THEN 1 ELSE -1),
                      last'.to.col))]_vars

\* Black's pawn on d4 has taken the White pawn on e4 en passant: it stands
\* on e3, e4 is empty and the pawn is the last of Black's captured list.
C22_BlackTookEnPassant ==
    /\ MoveMade /\ last.op = "black_turn"
    /\ last.from = Pos(4, 3) /\ last.to = Pos(5, 4)
    /\ get_piece_at(game, 5, 4) = Piece(PAWN, BLACK)
    /\ ~is_piece_at(game, 4, 4)
    /\ game.black_captured # <<>>
    /\ game.black_captured[Len(game.black_captured)] = Piece(PAWN, WHITE)
    /\ ~game.en_passant_available

\* The game and the log after the first k moves of the scholar's-mate line
\* have gone through the prompt and the engine's turn, and whether the last
\* of them was accepted.
RECURSIVE LinePlayed(_)
LinePlayed(k) ==
    LET Played(before) ==
            IF k % 2 = 1
            THEN handle_move_execution(before.game, before.fen_log,
                                       ScholarLine[k], QUEEN)
            ELSE handle_black_turn(before.game, before.fen_log,
                                   [got |-> TRUE, move_str |-> ScholarLine[k]],
                                   QUEEN)
    IN IF k = 0
       THEN Handled(init_board, save_fen_log(<<>>, init_board), TRUE,
                    NoPos, NoPos)
       ELSE Played(LinePlayed(k - 1))

\* C23: while the game follows the line e2-e4, e7-e5, d1-h5, b8-c6, f1-c4,
\* g8-f6, h5xf7 from the standard start, the next move of the line is
\* accepted and logged, and after h5xf7 Black is to move, is_checkmate
\* holds for Black and is_stalemate does not.
C23_ScholarsMate ==
    \A k \in 0..Len(ScholarLine) :
        (/\ Len(fen_log) = k + 1
         /\ fen_log = LinePlayed(k).fen_log
         /\ game = LinePlayed(k).game)
            => IF k < Len(ScholarLine)
               THEN /\ LinePlayed(k + 1).ret
                    /\ Len(LinePlayed(k + 1).fen_log) = k + 2
               ELSE /\ game.current_player = BLACK
                    /\ is_checkmate(game, BLACK).ret
                    /\ ~is_stalemate(game, BLACK).ret

\* The whole line has been played: the queen that went h5-f7 stands on f7
\* and the log holds the start and the seven positions after it.
C23_LinePlayedOut ==
    /\ MoveMade /\ last.op = "white_move"
    /\ last.from = Pos(3, 7) /\ last.to = Pos(1, 5)
    /\ Len(fen_log) = Len(ScholarLine) + 1
    /\ fen_log = LinePlayed(Len(ScholarLine)).fen_log
    /\ game = LinePlayed(Len(ScholarLine)).game
    /\ get_piece_at(game, 1, 5) = Piece(QUEEN, WHITE)

\* C24: is_fifty_move_rule_draw is true exactly when halfmove_clock >= 100,
\* so a position with halfmove_clock 99 reports no draw; and an accepted move
\* from such a position that is neither a pawn move nor a capture leaves
\* halfmove_clock 100 and the draw reported.
C24_FiftyMoveRule ==
    /\ [](/\ is_fifty_move_rule_draw(game) <=> game.halfmove_clock >= 100
          /\ game.halfmove_clock = 99 => ~is_fifty_move_rule_draw(game))
    /\ [][(/\ MoveMade'
           /\ game.halfmove_clock = 99
           /\ get_piece_at(game, last'.from.row, last'.from.col).type # PAWN
           /\ ~is_piece_at(game, last'.to.row, last'.to.col))
              => /\ game'.halfmove_clock = 100
                 /\ is_fifty_move_rule_draw(game')]_vars

\* The rook has gone h1-h2 in the position whose clock stood at 99: the
\* clock is 100 and the draw is reported.
C24_HundredthHalfmove ==
    /\ MoveMade /\ last.from = Pos(7, 7) /\ last.to = Pos(6, 7)
    /\ get_piece_at(game, 6, 7) = Piece(ROOK, WHITE)
    /\ game.halfmove_clock = 100
    /\ is_fifty_move_rule_draw(game)

\* C25: from the log of a game the notation converter derives one move for
\* every pair of consecutive entries, so as many moves as the log has
\* entries less one, and the move it derives from the entry an accepted
\* move adds has the origin and the destination of that move.
C25_ConverterDerivesEveryMove ==
    /\ [](Len(convert_fen_to_pgn_string(fen_log)) = Len(fen_log) - 1)
    /\ [][(MoveMade' /\ Len(fen_log') = Len(fen_log) + 1)
             => LET Derived(moves) ==
                        /\ Len(moves) = 1
                        /\ moves[1].from = last'.from
                        /\ moves[1].to = last'.to
                IN Derived(MovesBetween(PgnBoard(fen_log[Len(fen_log)]),
                                        PgnBoard(fen_log'[Len(fen_log')])))]_vars

\* C26: whatever piece of the side to move is tried on whatever square its
\* generator offers, would_be_in_check_after_move leaves the game as it
\* found it: the board, both king squares, the side to move, the castling
\* flags, the en-passant state and the counters.
C26_FilterLeavesGame ==
    \A from \in Squares :
        (/\ is_piece_at(game, from.row, from.col)
         /\ get_piece_at(game, from.row, from.col).color = game.current_player)
            => \A to \in get_possible_moves(game, from) :
                  would_be_in_check_after_move(game, from, to).game = game

\* C27: whatever origin and destination make_move is called with, when it
\* returns false the game is what it was before the call: no square, king
\* square, flag, counter, captured list or side to move differs.
C27_RefusedMoveLeavesGame ==
    \A from \in Squares : \A to \in Squares :
        LET Kept(r) == ~r.ret => r.game = game
        IN Kept(make_move(game, from, to, QUEEN))

\* C28: the end-of-game tests are observers: has_legal_moves, is_checkmate
\* and is_stalemate, asked about the side to move, return with current_player
\* and the rest of the position as they were at entry.  (is_square_attacked
\* and is_in_check put current_player back before any of their returns and
\* touch nothing else, which is why they are values of the game here.)
C28_TestsAreObservers ==
    /\ has_legal_moves(game, game.current_player).game = game
    /\ is_checkmate(game, game.current_player).game = game
    /\ is_stalemate(game, game.current_player).game = game

\* C29: every accepted move that takes a king two files along its row, a
\* castle, starts with a rook of the mover's color on the corner of that
\* wing and ends with the king on its destination, that rook on the square
\* the king passed over and the corner empty.
C29_CastleMovesOwnRook ==
    [][MoveMade' =>
          LET Castle(from, to, king, corner, passed) ==
                  (king.type = KING /\ Abs(to.col - from.col) = 2)
                      => /\ get_piece_at(game, corner.row, corner.col)
                               = Piece(ROOK, king.color)
                         /\ get_piece_at(game', to.row, to.col) = king
                         /\ get_piece_at(game', passed.row, passed.col)
                               = Piece(ROOK, king.color)
                         /\ ~is_piece_at(game', corner.row, corner.col)
          IN Castle(last'.from, last'.to,
                    get_piece_at(game, last'.from.row, last'.from.col),
                    Pos(last'.from.row,
                        IF last'.to.col > last'.from.col THEN 7 ELSE 0),
                    Pos(last'.from.row,
                        (last'.from.col + last'.to.col) \div 2))]_vars

\* C30: for every square and color, is_square_attacked is true exactly when
\* a piece of that color attacks the square under the rules of chess: for a
\* pawn the two squares diagonally ahead of it, empty or occupied, and never
\* the square straight ahead.
C30_AttackedAsInChess ==
    \A pos \in Squares : \A by_color \in {WHITE, BLACK} :
        is_square_attacked(game, pos, by_color)
            <=> ChessAttacked(game, pos, by_color)

\* C31: a move is accepted only in an iteration at whose top the side to
\* move has a legal move, is neither checkmated nor stalemated, the
\* halfmove clock is below 100 and no clock has run out; when one of these
\* fails at the top of an iteration the loop ends in it, and once it has
\* ended nothing more happens.
C31_NoMoveOnceOver ==
    /\ [][(MoveMade' /\ Len(fen_log') = Len(fen_log) + 1) =>
             /\ has_legal_moves(game, game.current_player).ret
             /\ ~is_checkmate(game, game.current_player).ret
             /\ ~is_stalemate(game, game.current_player).ret
             /\ game.halfmove_clock < 100
             /\ ~check_time_forfeit(clock)]_vars
    /\ [][(\/ ~has_legal_moves(game, game.current_player).ret
           \/ game.halfmove_clock >= 100
           \/ check_time_forfeit(clock)) => ~running']_vars
    /\ [][running]_vars

\* The loop has ended on the clock's game with White checkmated by the queen
\* on h4, no clock having run out.
C31_EndedAtCheckmate ==
    /\ ~running /\ last.op = "end"
    /\ clock.time_control.enabled /\ ~check_time_forfeit(clock)
    /\ game.current_player = WHITE
    /\ get_piece_at(game, 4, 7) = Piece(QUEEN, BLACK)
    /\ is_checkmate(game, WHITE).ret
    /\ ~has_legal_moves(game, WHITE).ret

\* C32: in every position play from the standard start leads to, no White
\* pawn stands on row 0 and no Black pawn on row 7.
C32_NoPawnOnLastRank ==
    \A col \in Rows :
        /\ get_piece_at(game, 0, col) # Piece(PAWN, WHITE)
        /\ get_piece_at(game, 7, col) # Piece(PAWN, BLACK)

\* White's pawn has taken on h8 from g7 and a White queen or knight stands
\* there.
C32_PromotedByCapture ==
    /\ MoveMade /\ last.op = "white_move"
    /\ last.from = Pos(1, 6) /\ last.to = Pos(0, 7)
    /\ ~is_piece_at(game, 1, 6)
    /\ get_piece_at(game, 0, 7) \in {Piece(QUEEN, WHITE), Piece(KNIGHT, WHITE)}

\* C33: the FEN log is never empty and its last entry is never an empty
\* line; whatever number of move pairs truncate_fen_log_by_moves is asked to
\* remove, it leaves at least the first entry, unchanged; and no move and
\* no undo changes the first entry of the log.
C33_LogKeepsFirstEntry ==
    /\ [](/\ Len(fen_log) >= 1
          /\ Len(fen_log[Len(fen_log)]) > 0
          /\ \A move_pairs_to_undo \in 0..MaxUndo :
                LET Kept(cut) == Len(cut) >= 1 /\ cut[1] = fen_log[1]
                IN Kept(truncate_fen_log_by_moves(fen_log, move_pairs_to_undo)))
    /\ [][last'.op # "setup" => fen_log'[1] = fen_log[1]]_vars

\* One move pair has been taken back and the log is down to the starting
\* position.
C33_UndoneToFirstEntry ==
    /\ last.op = "undo" /\ last.ret /\ last.count = 1
    /\ fen_log = <<board_to_fen(init_board)>>

\* The seconds a player has left: what is stored, less the time the running
\* timer has counted against that player.
TimeLeft(c, player) ==
    (IF player = WHITE THEN c.timer.white_time_seconds
     ELSE c.timer.black_time_seconds)
        - (IF c.timer.timing_active /\ c.timer.timer_player = player
           THEN c.timer.elapsed ELSE 0)

\* C34: when the loop declares a time forfeit, the declared winner is the
\* opponent of a player whose clock has reached zero, and the winner's own
\* clock has not.
C34_ForfeitWinnerIsOpponent ==
    [][(last'.op = "forfeit" /\ last.op # "forfeit") =>
          /\ clock'.forfeit
          /\ TimeLeft(clock, Opponent(clock'.winner)) <= 0
          /\ TimeLeft(clock, clock'.winner) > 0]_vars

\* The board field of the text has 8 ranks, each describing 8 squares.
EightRanksOfEight(fen) ==
    LET Field(end) ==
            /\ Cardinality({i \in 1..(end - 1) : fen[i] = "/"}) = BOARD_SIZE - 1
            /\ \A i \in 1..end :
                  (i = end \/ fen[i] = "/") => LoopCol(fen, i) = BOARD_SIZE
    IN Field(CHOOSE i \in 1..(Len(fen) + 1) :
                 /\ At(fen, i) \in {NUL, " "}
                 /\ \A j \in 1..(i - 1) : fen[j] # " ")

\* Every piece letter of the board field stands on the board of g at the
\* row and column the text gives it.
LettersOnBoard(fen, g) ==
    LET Field(end) ==
            \A i \in 1..(end - 1) :
                fen[i] \in FenPieceLetters =>
                    /\ LoopRow(fen, i) < BOARD_SIZE
                    /\ LoopCol(fen, i) < BOARD_SIZE
                    /\ get_piece_at(g, LoopRow(fen, i), LoopCol(fen, i))
                          = Piece(char_to_piece_type(fen[i]),
                                  IF isupper(fen[i]) THEN WHITE ELSE BLACK)
    IN Field(CHOOSE i \in 1..(Len(fen) + 1) :
                 /\ At(fen, i) \in {NUL, " "}
                 /\ \A j \in 1..(i - 1) : fen[j] # " ")

\* C35: whatever the game, setup_board_from_fen succeeds on a text only if
\* its board field has 8 ranks of exactly 8 squares, and then every piece
\* letter of the field is on the board at its square.
C35_SetupOnlyEightByEight ==
    \A fen \in CaseFens :
        LET Loaded(r) ==
                r.ret => /\ EightRanksOfEight(fen)
                         /\ LettersOnBoard(fen, r.game)
        IN Loaded(setup_board_from_fen(game, fen))

\* C36: in every reachable state both captured lists hold at most 16
\* pieces, so no capture record is written past the 16 slots.
C36_CapturedWithinArray ==
    /\ Len(game.white_captured) <= 16
    /\ Len(game.black_captured) <= 16

====
